---------------------------- MODULE Spec2Model ----------------------------
(***************************************************************************)
(* Workflow orchestration of MySiteGen-Agent: the two retry wrappers       *)
(* (geminiService.retryWithBackoff, githubService.fetchWithRetry), the     *)
(* task ledger (ProjectState.executionPlan) and the four pipeline runners  *)
(* of the App component together with handleAbort.                         *)
(*                                                                         *)
(* Granularity: JavaScript runs every handler to its next `await` without  *)
(* interleaving, so one action is one such synchronous stretch.  A remote  *)
(* call in flight and a backoff timer are the only suspension points.      *)
(***************************************************************************)
EXTENDS Integers, Sequences, FiniteSets, TLC

VARIABLES
  call,      \* retry harness: the wrapper execution under test
  token,     \* retry harness: signal.aborted of the AbortSignal passed in
  apiKey,    \* geminiService.ts:5  TRUE iff process.env.API_KEY is non-empty
  state,     \* App: the ProjectState held by useState
  abortRef,  \* App: abortControllerRef.current (0 = null, else a signal id)
  aborted,   \* the AbortSignals whose .aborted is true
  runs,      \* the handler invocations so far: position, closure and locals
  ledgerOp,  \* ledger harness: the last ledger operation and the ledger before it
  request    \* App: the start request the last step handled, if it was one

retryVars == <<call, token, apiKey>>
appVars == <<state, abortRef, aborted, runs>>
vars == <<call, token, apiKey, state, abortRef, aborted, runs, ledgerOp, request>>

(***************************************************************************)
(* Bounds and program constants                                            *)
(***************************************************************************)
MaxAttempts == 3          \* largest maxRetries / retries the harness tries
MaxRuns == 2              \* handler invocations per behaviour
MaxHubs == 2              \* hubs a strategy response may carry
MaxLedger == 6            \* longest ledger the ledger harness builds

GenMaxRetries == 5        \* every agent passes 5 to retryWithBackoff
HostRetries == 3          \* every caller passes 3 to fetchWithRetry

GenInitialDelay == 2000   \* retryWithBackoff: initialDelay default
HostBaseDelay == 1000     \* fetchWithRetry: 1000 * 2^i

(***************************************************************************)
(* Errors.  An error value is what `catch (e)` sees: its name, its         *)
(* .status and the substrings of its .message the code tests for.          *)
(***************************************************************************)
GenErrorClasses == {"network", "rate429", "overloaded", "http5xx", "other"}

ErrAttr(cls) ==
  CASE cls = "network"    -> [name |-> "TypeError", status |-> 0,   msg |-> {"fetch"}]
    [] cls = "rate429"    -> [name |-> "Error",     status |-> 429, msg |-> {"429"}]
    [] cls = "overloaded" -> [name |-> "Error",     status |-> 503, msg |-> {"overloaded"}]
    [] cls = "http5xx"    -> [name |-> "Error",     status |-> 500, msg |-> {}]
    [] cls = "abort"      -> [name |-> "AbortError", status |-> 0,  msg |-> {}]
    [] OTHER              -> [name |-> "Error",     status |-> 400, msg |-> {}]

\* isRetryable without the isRateLimit disjunct
isRetryable_NoRateLimit(cls) ==
  LET e == ErrAttr(cls)
      isNetworkError == e.name = "TypeError" \/ "fetch" \in e.msg
  IN  isNetworkError \/ "overloaded" \in e.msg

\* geminiService.ts:34-36
isRetryable(cls) ==
  LET e == ErrAttr(cls)
      isNetworkError == e.name = "TypeError" \/ "fetch" \in e.msg
      isRateLimit == e.status = 429 \/ "429" \in e.msg
  IN  isNetworkError \/ isRateLimit \/ "overloaded" \in e.msg

\* line 40 without `|| res.status >= 500`
hostStatusThrows_Only429(s) == s = 429

\* githubService.ts:40  a response that fetchWithRetry turns into a throw
hostStatusThrows(s) == s = 429 \/ s >= 500

HostStatuses == {200, 404, 409, 422, 401, 429, 500}

\* what the spec calls Retryable: transport failure, HTTP 429, overloaded
SpecRetryable == {"network", "rate429", "overloaded"}

(***************************************************************************)
(* A wrapper execution.  phase: "new" (not called yet), "inflight" (the    *)
(* operation's promise is pending), "wait" (backoff timer pending),        *)
(* "returned", "thrown".                                                   *)
(***************************************************************************)
NoResult == [kind |-> "none", err |-> "none", wrapped |-> FALSE, status |-> 0]
Returned(s) == [kind |-> "value", err |-> "none", wrapped |-> FALSE, status |-> s]
Thrown(cls, w) == [kind |-> "error", err |-> cls, wrapped |-> w, status |-> 0]
AbortError == Thrown("abort", FALSE)

NewCall(w, max) ==
  [wrapper |-> w, max |-> max, i |-> 0, phase |-> "new", inv |-> 0,
   delay |-> IF w = "gen" THEN GenInitialDelay ELSE HostBaseDelay,
   waits |-> <<>>, hist |-> <<>>, lastError |-> "none", result |-> NoResult]

Finish(c, r) == [c EXCEPT !.phase = IF r.kind = "value" THEN "returned" ELSE "thrown",
                          !.result = r]

\* fetchWithRetry lines 55-60, after the loop
hostAfterLoop(c) ==
  IF c.lastError = "network" THEN Finish(c, Thrown("network", TRUE))
  ELSE IF c.lastError = "none" THEN Finish(c, Thrown("other", FALSE))
  ELSE Finish(c, Thrown(c.lastError, FALSE))

\* the loop head without its `signal?.aborted` test
loopTop_NoAbortTest(c, ab) ==
  IF c.i < c.max
  THEN [c EXCEPT !.phase = "inflight", !.inv = c.inv + 1]
  ELSE IF c.wrapper = "gen" THEN Finish(c, Thrown("connect", FALSE))
       ELSE hostAfterLoop(c)

\* the head of one loop iteration: the bound test, the abort test, the call
loopTop(c, ab) ==
  IF c.i < c.max
  THEN IF ab THEN Finish(c, AbortError)
       ELSE [c EXCEPT !.phase = "inflight", !.inv = c.inv + 1]
  ELSE IF c.wrapper = "gen" THEN Finish(c, Thrown("connect", FALSE))
       ELSE hostAfterLoop(c)

\* retryWithBackoff without the credential test of lines 21-23
beginCall_NoKeyTest(c, key, ab) == loopTop(c, ab)

\* retryWithBackoff lines 21-30 / fetchWithRetry lines 33-39, up to the await
beginCall(c, key, ab) ==
  IF c.wrapper = "gen" /\ ~key THEN Finish(c, Thrown("config", FALSE))
  ELSE loopTop(c, ab)

\* what an in-flight operation settles with: a value, a thrown error, or (for
\* fetch) a response carrying an HTTP status
Ok == [kind |-> "ok", cls |-> "none", status |-> 200]
Err(cls) == [kind |-> "err", cls |-> cls, status |-> ErrAttr(cls).status]
Resp(s) == [kind |-> "resp", cls |-> "none", status |-> s]

\* the catch block without the `!isRetryable` half of line 38
genDeliver_RetryAnyError(c, out, ab) ==
  LET c1 == [c EXCEPT !.hist = Append(c.hist, out)] IN
  IF out.kind = "ok" THEN Finish(c1, Returned(200))
  ELSE IF ab THEN Finish(c1, AbortError)
  ELSE IF c.i = c.max - 1 THEN Finish(c1, Thrown(out.cls, FALSE))
  ELSE [c1 EXCEPT !.phase = "wait", !.waits = Append(c.waits, c.delay),
                  !.lastError = out.cls]

\* the catch block without the `signal?.aborted` test of line 32
genDeliver_NoAbortTest(c, out, ab) ==
  LET c1 == [c EXCEPT !.hist = Append(c.hist, out)] IN
  IF out.kind = "ok" THEN Finish(c1, Returned(200))
  ELSE IF ~isRetryable(out.cls) \/ c.i = c.max - 1 THEN Finish(c1, Thrown(out.cls, FALSE))
  ELSE [c1 EXCEPT !.phase = "wait", !.waits = Append(c.waits, c.delay),
                  !.lastError = out.cls]

\* retryWithBackoff lines 30-39: the operation settles with `out`
genDeliver(c, out, ab) ==
  LET c1 == [c EXCEPT !.hist = Append(c.hist, out)] IN
  IF out.kind = "ok" THEN Finish(c1, Returned(200))
  ELSE IF ab THEN Finish(c1, AbortError)
  ELSE IF ~isRetryable(out.cls) \/ c.i = c.max - 1 THEN Finish(c1, Thrown(out.cls, FALSE))
  ELSE [c1 EXCEPT !.phase = "wait", !.waits = Append(c.waits, c.delay),
                  !.lastError = out.cls]

\* fetchWithRetry waiting after every failed attempt, the last included
hostDeliver_WaitsAfterLast(c, out, ab) ==
  LET c1 == [c EXCEPT !.hist = Append(c.hist, out)]
      cls == IF out.kind = "err" THEN out.cls
             ELSE IF out.status = 429 THEN "rate429" ELSE "http5xx"
      c2 == [c1 EXCEPT !.lastError = cls]
  IN
  IF out.kind = "resp" /\ ~hostStatusThrows(out.status) THEN Finish(c1, Returned(out.status))
  ELSE IF cls = "abort" THEN Finish(c2, AbortError)
  ELSE [c2 EXCEPT !.phase = "wait",
                  !.waits = Append(c.waits, HostBaseDelay * (2 ^ c.i))]

\* fetchWithRetry lines 39-52: fetch settles with `out`: a response, a network
\* TypeError, or the AbortError fetch rejects with once its signal is aborted
hostDeliver(c, out, ab) ==
  LET c1 == [c EXCEPT !.hist = Append(c.hist, out)]
      cls == IF out.kind = "err" THEN out.cls
             ELSE IF out.status = 429 THEN "rate429" ELSE "http5xx"
      c2 == [c1 EXCEPT !.lastError = cls]
  IN
  IF out.kind = "resp" /\ ~hostStatusThrows(out.status) THEN Finish(c1, Returned(out.status))
  ELSE IF cls = "abort" THEN Finish(c2, AbortError)
  ELSE IF c.i < c.max - 1
       THEN [c2 EXCEPT !.phase = "wait",
                       !.waits = Append(c.waits, HostBaseDelay * (2 ^ c.i))]
       ELSE hostAfterLoop([c2 EXCEPT !.i = c.i + 1])

\* a loop whose first retry does not advance the counter i
elapse_FirstRetryFree(c, ab) ==
  LET n  == IF Len(c.waits) = 1 /\ c.inv = 1 THEN c.i ELSE c.i + 1
      c1 == IF c.wrapper = "gen"
            THEN [c EXCEPT !.delay = (c.delay * 3) \div 2, !.i = n]
            ELSE [c EXCEPT !.i = n]
  IN loopTop(c1, ab)

\* line 40 as `delay *= 2`
elapse_Doubles(c, ab) ==
  LET c1 == IF c.wrapper = "gen"
            THEN [c EXCEPT !.delay = c.delay * 2, !.i = c.i + 1]
            ELSE [c EXCEPT !.i = c.i + 1]
  IN loopTop(c1, ab)

\* the backoff timer fires: line 40 `delay *= 1.5`, then i++ and the loop head
\* (the first four products, all that maxRetries = 5 allows, are whole numbers)
elapse(c, ab) ==
  LET c1 == IF c.wrapper = "gen"
            THEN [c EXCEPT !.delay = (c.delay * 3) \div 2, !.i = c.i + 1]
            ELSE [c EXCEPT !.i = c.i + 1]
  IN loopTop(c1, ab)

\* outcomes an in-flight operation can settle with.  generateContent is not
\* handed the signal, so it settles on its own; fetch is, and rejects when the
\* signal is aborted.
Outcomes(c, ab) ==
  IF c.wrapper = "gen" THEN {Ok} \cup {Err(e) : e \in GenErrorClasses}
  ELSE IF ab THEN {Err("abort")}
  ELSE {Resp(s) : s \in HostStatuses} \cup {Err("network")}

deliver(c, out, ab) ==
  IF c.wrapper = "gen" THEN genDeliver(c, out, ab) ELSE hostDeliver(c, out, ab)

(***************************************************************************)
(* ProjectState and the task ledger                                        *)
(***************************************************************************)
Resting == {"idle", "ready", "deployed"}

\* App lines 80-91: the state a first visit starts from
InitialState ==
  [status |-> "idle", executionPlan |-> <<>>, currentDetail |-> "null",
   identity |-> 0, hubs |-> <<>>, articles |-> <<>>,
   githubConfig |-> [repo |-> "none", branch |-> "main"]]

Task(id, st, grp) == [id |-> id, status |-> st, group |-> grp]

\* App lines 142-147
setTaskStatus(plan, id, st) ==
  [j \in 1..Len(plan) |->
     IF plan[j].id = id THEN [plan[j] EXCEPT !.status = st] ELSE plan[j]]

\* `[...executionPlan, ...tasks]` (App lines 226 and 302)
ledgerAppend(plan, tasks) == plan \o tasks

SetTask(s, id, st) ==
  [s EXCEPT !.executionPlan = setTaskStatus(s.executionPlan, id, st)]

\* the `updateState({status, executionPlan: [], currentDetail: null})` every
\* runner ends with
Rest(s, st) ==
  [s EXCEPT !.status = st, !.executionPlan = <<>>, !.currentDetail = "null"]

(***************************************************************************)
(* Handler invocations.  `snap` is the `state` the handler closed over     *)
(* when it was invoked: a handler keeps reading that render's state.       *)
(***************************************************************************)
NoCall == NewCall("gen", 0)

Hub(id, slug, html) == [id |-> id, slug |-> slug, html |-> html]
HomeHub == Hub(0, 0, 1)

NewRun(kind, sig, s, target) ==
  [kind |-> kind, sig |-> sig, pc |-> "start", exit |-> "none", call |-> NoCall,
   snap |-> s, target |-> target, identity |-> 0, branch |-> "main",
   hubs |-> <<>>, arts |-> <<>>, upHubs |-> <<>>, upArts |-> <<>>,
   targets |-> <<>>, files |-> <<>>, indexFile |-> 0, k |-> 0, sha |-> FALSE,
   details |-> "unknown", created |-> FALSE, createStatus |-> 0, checkStatus |-> 0,
   pagesStatus |-> 0]

\* a handler that has returned keeps nothing but how it ended (and, of a
\* Publish, the statuses createRepository and enablePages were answered with)
Done(r, how) ==
  [NewRun(r.kind, r.sig, InitialState, 0) EXCEPT !.pc = "done", !.exit = how,
                                                 !.createStatus = r.createStatus,
                                                 !.pagesStatus = r.pagesStatus]

Step(r, s) == [r |-> r, s |-> s]

\* the catch (and, in Tune, finally) blocks: App lines 251-254, 328-334,
\* 391-394, 422-425
Catch(r, s, err) ==
  LET how == IF err = "abort" THEN "canceled" ELSE "fatal" IN
  IF r.kind = "tune" THEN Step(Done(r, how), Rest(s, "ready"))
  ELSE IF err = "abort" THEN Step(Done(r, how), s)
  ELSE IF r.kind = "publish" THEN Step(Done(r, how), Rest(s, "ready"))
  ELSE Step(Done(r, how), Rest(s, "idle"))

\* calling an agent or a hosting function: the wrapper runs up to its first
\* await, or throws into the handler's catch
Invoke(r, s, w, pc, ab) ==
  LET c == beginCall(NewCall(w, IF w = "gen" THEN GenMaxRetries ELSE HostRetries),
                     apiKey, ab)
  IN IF c.phase = "inflight" THEN Step([r EXCEPT !.pc = pc, !.call = c], s)
     ELSE Catch(r, s, c.result.err)

(***************************************************************************)
(* Build: handleInitialBuild, App lines 197-255                            *)
(***************************************************************************)
BuildId(h) == <<"build", h.id>>

\* lines 202-205
BuildSeed ==
  << Task(<<"identity", 0>>, "running", "none"),
     Task(<<"strategy", 0>>, "pending", "none") >>

\* lines 217-220
hubTasks(hubs) ==
  [j \in 1..Len(hubs) |-> Task(BuildId(hubs[j]), "pending", "gen-pages")]
    \o << Task(<<"finalize-index", 0>>, "pending", "none") >>

\* lines 198-209
buildStart(r, s) ==
  LET s1 == [s EXCEPT !.status = "building_identity",
                      !.executionPlan = BuildSeed,
                      !.currentDetail = "analyzing"]
  IN Invoke(r, s1, "gen", "identity", FALSE)

\* lines 210-214
buildAfterIdentity(r, s, ab) ==
  LET s1 == SetTask(SetTask(s, <<"identity", 0>>, "completed"), <<"strategy", 0>>, "running")
      s2 == [s1 EXCEPT !.identity = r.sig, !.status = "generating_strategy",
                       !.currentDetail = "strategy"]
  IN Invoke([r EXCEPT !.identity = r.sig], s2, "gen", "strategy", ab)

\* lines 231-248: the head of the per-page loop, and what follows the loop
buildLoop(r, s, ab) ==
  IF r.k <= Len(r.hubs)
  THEN IF ab THEN Step(Done(r, "canceled"), s)
       ELSE LET h == r.hubs[r.k]
                s1 == [SetTask(s, BuildId(h), "running") EXCEPT !.currentDetail = "coding"]
            IN Invoke(r, s1, "gen", "page", ab)
  ELSE Invoke(r, SetTask(s, <<"finalize-index", 0>>, "running"), "gen", "finalize", ab)

\* lines 215-230
buildAfterStrategy(r, s, hubs, ab) ==
  LET s1 == SetTask(s, <<"strategy", 0>>, "completed")
      s2 == [s1 EXCEPT !.hubs = hubs, !.status = "generating_hubs",
                       !.executionPlan = ledgerAppend(r.snap.executionPlan, hubTasks(hubs)),
                       !.currentDetail = "pages"]
  IN buildLoop([r EXCEPT !.hubs = hubs, !.upHubs = <<>>, !.k = 1], s2, ab)

\* the page loop stepping over the hub after the one just generated
buildAfterPage_SkipsNext(r, s, ab) ==
  LET h == r.hubs[r.k]
      r1 == [r EXCEPT !.upHubs = Append(r.upHubs, [h EXCEPT !.html = 1]), !.k = r.k + 2]
  IN buildLoop(r1, SetTask(s, BuildId(h), "completed"), ab)

\* lines 235-238
buildAfterPage(r, s, ab) ==
  LET h == r.hubs[r.k]
      r1 == [r EXCEPT !.upHubs = Append(r.upHubs, [h EXCEPT !.html = 1]), !.k = r.k + 1]
  IN buildLoop(r1, SetTask(s, BuildId(h), "completed"), ab)

\* line 248 with the homepage appended instead of prepended
buildAfterFinalize_HomeLast(r, s) ==
  LET s1 == SetTask(s, <<"finalize-index", 0>>, "completed")
      s2 == [Rest(s1, "ready") EXCEPT !.hubs = r.upHubs \o <<HomeHub>>]
  IN Step(Done(r, "success"), s2)

\* lines 245-250
buildAfterFinalize(r, s) ==
  LET s1 == SetTask(s, <<"finalize-index", 0>>, "completed")
      s2 == [Rest(s1, "ready") EXCEPT !.hubs = <<HomeHub>> \o r.upHubs]
  IN Step(Done(r, "success"), s2)

(***************************************************************************)
(* Tune: handleTuneDesign, App lines 257-335                               *)
(***************************************************************************)
All == -1                 \* the tuning target "all"
TuneId(t) == <<"tune", t.id>>
Article(id, hubId, html) == [id |-> id, hubId |-> hubId, html |-> html]
Target(p, type) == [id |-> p.id, html |-> p.html, type |-> type]

\* Array.prototype.findIndex / find: the first of the positions `hits` that
\* satisfy the callback, 0 when none does
FirstIndex(hits) ==
  IF hits = {} THEN 0 ELSE CHOOSE j \in hits : \A m \in hits : j <= m
WithId(q, id) == {j \in 1..Len(q) : q[j].id = id}

\* lines 282-285 with the article lookup taking precedence over the hub lookup
targetsToProcess_ArticleFirst(snap, target) ==
  IF target = All
  THEN [j \in 1..Len(snap.hubs) |-> Target(snap.hubs[j], "hub")]
         \o [j \in 1..Len(snap.articles) |-> Target(snap.articles[j], "article")]
  ELSE LET hub == FirstIndex(WithId(snap.hubs, target))
           art == FirstIndex(WithId(snap.articles, target))
       IN IF art # 0 THEN << Target(snap.articles[art], "article") >>
          ELSE IF hub # 0 THEN << Target(snap.hubs[hub], "hub") >>
          ELSE <<>>

\* lines 276-286
targetsToProcess(snap, target) ==
  IF target = All
  THEN [j \in 1..Len(snap.hubs) |-> Target(snap.hubs[j], "hub")]
         \o [j \in 1..Len(snap.articles) |-> Target(snap.articles[j], "article")]
  ELSE LET hub == FirstIndex(WithId(snap.hubs, target))
           art == FirstIndex(WithId(snap.articles, target))
       IN IF hub # 0 THEN << Target(snap.hubs[hub], "hub") >>
          ELSE IF art # 0 THEN << Target(snap.articles[art], "article") >>
          ELSE <<>>

\* the markup a refactor call of run r returns
TunedHtml(r) == 10 + r.sig

\* line 267
TuneSeed == << Task(<<"plan-generation", 0>>, "running", "none") >>

\* lines 288-300
tuneTaskList(nsteps, targets) ==
  [j \in 1..nsteps |-> Task(<<"plan-step", j - 1>>, "completed", "none")]
    \o [j \in 1..Len(targets) |-> Task(TuneId(targets[j]), "pending", "tune-pages")]

\* lines 262-272
tuneStart(r, s) ==
  LET s1 == [s EXCEPT !.status = "tuning_design",
                      !.executionPlan = TuneSeed,
                      !.currentDetail = "planning"]
  IN Invoke(r, s1, "gen", "plan", FALSE)

\* the per-target loop without the finally block behind its early return
tuneLoop_NoFinally(r, s, ab) ==
  IF r.k <= Len(r.targets)
  THEN IF ab THEN Step(Done(r, "canceled"), s)
       ELSE LET s1 == [SetTask(s, TuneId(r.targets[r.k]), "running")
                         EXCEPT !.currentDetail = "refactoring"]
            IN Invoke(r, s1, "gen", "refactor", ab)
  ELSE Step(Done(r, "success"),
            Rest([s EXCEPT !.hubs = r.upHubs, !.articles = r.upArts], "ready"))

\* lines 307-326 and the finally block: the head of the per-target loop, and
\* what follows the loop
tuneLoop(r, s, ab) ==
  IF r.k <= Len(r.targets)
  THEN IF ab THEN Step(Done(r, "canceled"), Rest(s, "ready"))
       ELSE LET s1 == [SetTask(s, TuneId(r.targets[r.k]), "running")
                         EXCEPT !.currentDetail = "refactoring"]
            IN Invoke(r, s1, "gen", "refactor", ab)
  ELSE Step(Done(r, "success"),
            Rest([s EXCEPT !.hubs = r.upHubs, !.articles = r.upArts], "ready"))

\* lines 273-305; nsteps is the length of tunePlan.tasks
tuneAfterPlan(r, s, nsteps, ab) ==
  LET s1 == SetTask(s, <<"plan-generation", 0>>, "completed")
      targets == targetsToProcess(r.snap, r.target)
      s2 == [s1 EXCEPT !.executionPlan =
                         ledgerAppend(r.snap.executionPlan, tuneTaskList(nsteps, targets))]
      r1 == [r EXCEPT !.targets = targets, !.upHubs = r.snap.hubs,
                      !.upArts = r.snap.articles, !.k = 1]
  IN tuneLoop(r1, s2, ab)

\* lines 312-322 writing the markup to the page with the target's id in both
\* lists, whatever the target's type
tuneAfterRefactor_BothLists(r, s, ab) ==
  LET t  == r.targets[r.k]
      h  == FirstIndex(WithId(r.upHubs, t.id))
      a  == FirstIndex(WithId(r.upArts, t.id))
      r1 == IF h # 0 THEN [r EXCEPT !.upHubs[h].html = TunedHtml(r)] ELSE r
      r2 == IF a # 0 THEN [r1 EXCEPT !.upArts[a].html = TunedHtml(r)] ELSE r1
  IN tuneLoop([r2 EXCEPT !.k = r.k + 1], SetTask(s, TuneId(t), "completed"), ab)

\* lines 312-322
tuneAfterRefactor(r, s, ab) ==
  LET t == r.targets[r.k]
      r1 == IF t.type = "hub"
            THEN [r EXCEPT !.upHubs[FirstIndex(WithId(r.upHubs, t.id))].html = TunedHtml(r)]
            ELSE [r EXCEPT !.upArts[FirstIndex(WithId(r.upArts, t.id))].html = TunedHtml(r)]
  IN tuneLoop([r1 EXCEPT !.k = r.k + 1], SetTask(s, TuneId(t), "completed"), ab)

(***************************************************************************)
(* Import: handleImport, App lines 337-395                                 *)
(***************************************************************************)
File(dir, name) == [dir |-> dir, name |-> name]
IsHtml(f) == f.name \in {"index.html", "page.html"}       \* path.endsWith('.html')
IsIndex(f) == f.name = "index.html"                       \* path.endsWith('index.html')
\* path.includes(`${slug}/index.html`): dir 0 is the repository root
InHubDir(f, slug) == f.name = "index.html" /\ f.dir = slug /\ slug # 0
ContentOf(f) == 20 + f.dir

\* line 379
matchingFile(files, indexFile, hub) ==
  LET j == FirstIndex({m \in 1..Len(files) : InHubDir(files[m], hub.slug)})
  IN IF j # 0 THEN j
     ELSE IF hub.slug = 0 /\ indexFile # 0 THEN indexFile ELSE 0

\* lines 344-351
ImportSeed ==
  << Task(<<"fetch-info", 0>>, "running", "none"),
     Task(<<"fetch-tree", 0>>, "pending", "none"),
     Task(<<"fetch-content", 0>>, "pending", "none"),
     Task(<<"analyze-brand", 0>>, "pending", "none"),
     Task(<<"analyze-structure", 0>>, "pending", "none"),
     Task(<<"fetch-full-content", 0>>, "pending", "import-restore") >>

\* lines 340-357
importStart(r, s, repoOk) ==
  LET s1 == [s EXCEPT !.status = "importing",
                      !.executionPlan = ImportSeed,
                      !.currentDetail = "connecting"]
  IN IF repoOk THEN Invoke(r, s1, "host", "info", FALSE)
     ELSE Catch(r, s1, "other")

\* lines 358-361 without `config.branch = details.default_branch`
importAfterInfo_KeepsInitialBranch(r, s, status, branch, ab) ==
  IF status # 200 /\ status # 404 THEN Catch(r, s, "other")
  ELSE LET r1 == IF status = 200 THEN [r EXCEPT !.details = branch]
                 ELSE [r EXCEPT !.details = "absent"]
           s1 == SetTask(SetTask(s, <<"fetch-info", 0>>, "completed"),
                         <<"fetch-tree", 0>>, "running")
       IN Invoke(r1, s1, "host", "tree", ab)

\* lines 358-361; status is the response's, branch its default_branch
importAfterInfo(r, s, status, branch, ab) ==
  IF status # 200 /\ status # 404 THEN Catch(r, s, "other")
  ELSE LET r1 == IF status = 200 THEN [r EXCEPT !.details = branch, !.branch = branch]
                 ELSE [r EXCEPT !.details = "absent"]
           s1 == SetTask(SetTask(s, <<"fetch-info", 0>>, "completed"),
                         <<"fetch-tree", 0>>, "running")
       IN Invoke(r1, s1, "host", "tree", ab)

\* lines 367-369
importAfterContent(r, s, status, ab) ==
  IF status # 200 THEN Catch(r, s, "other")
  ELSE LET s1 == SetTask(SetTask(s, <<"fetch-content", 0>>, "completed"),
                         <<"analyze-brand", 0>>, "running")
       IN Invoke(r, s1, "gen", "brand", ab)

\* lines 362-366
importAfterTree(r, s, status, tree, ab) ==
  IF status # 200 THEN Catch(r, s, "other")
  ELSE LET htmlFiles == SelectSeq(tree, IsHtml)
           s1 == SetTask(SetTask(s, <<"fetch-tree", 0>>, "completed"),
                         <<"fetch-content", 0>>, "running")
           r1 == [r EXCEPT !.files = htmlFiles,
                           !.indexFile = FirstIndex({m \in 1..Len(htmlFiles) :
                                                     IsIndex(htmlFiles[m])})]
       IN IF r1.indexFile # 0 THEN Invoke(r1, s1, "host", "content", ab)
          ELSE importAfterContent(r1, s1, 200, ab)

\* lines 370-372
importAfterBrand(r, s, ab) ==
  LET s1 == SetTask(SetTask(s, <<"analyze-brand", 0>>, "completed"),
                    <<"analyze-structure", 0>>, "running")
  IN Invoke([r EXCEPT !.identity = r.sig], s1, "gen", "structure", ab)

\* lines 378-390: the head of the restoration loop, and what follows the loop
RECURSIVE importLoop(_, _, _)
importLoop(r, s, ab) ==
  IF r.k <= Len(r.hubs)
  THEN LET hub == r.hubs[r.k] IN
       IF matchingFile(r.files, r.indexFile, hub) # 0
       THEN Invoke(r, [s EXCEPT !.currentDetail = "fetching"], "host", "restore", ab)
       ELSE importLoop([r EXCEPT !.upHubs = Append(r.upHubs, hub), !.k = r.k + 1], s, ab)
  ELSE LET s1 == SetTask(s, <<"fetch-full-content", 0>>, "completed")
           s2 == [Rest(s1, "ready") EXCEPT
                    !.identity = r.identity,
                    !.githubConfig = [repo |-> "ok", branch |-> r.branch],
                    !.hubs = r.upHubs, !.articles = r.arts]
       IN Step(Done(r, "success"), s2)

\* lines 373-377
importAfterStructure(r, s, hubs, arts, ab) ==
  LET s1 == SetTask(SetTask(s, <<"analyze-structure", 0>>, "completed"),
                    <<"fetch-full-content", 0>>, "running")
  IN importLoop([r EXCEPT !.hubs = hubs, !.arts = arts, !.upHubs = <<>>, !.k = 1], s1, ab)

\* lines 382-383
importAfterRestore(r, s, status, ab) ==
  IF status # 200 THEN Catch(r, s, "other")
  ELSE LET hub == r.hubs[r.k]
           f == r.files[matchingFile(r.files, r.indexFile, hub)]
           r1 == [r EXCEPT !.upHubs = Append(r.upHubs, [hub EXCEPT !.html = ContentOf(f)]),
                           !.k = r.k + 1]
       IN importLoop(r1, s, ab)

(***************************************************************************)
(* Publish: handlePublish (App lines 397-426) with publishToGithub,        *)
(* createRepository and enablePages of githubService                       *)
(***************************************************************************)
\* lines 402-406
PublishSeed ==
  << Task(<<"check-repo", 0>>, "running", "none"),
     Task(<<"push-files", 0>>, "pending", "push-group"),
     Task(<<"enable-pages", 0>>, "pending", "none") >>

\* lines 399-410
publishStart(r, s) ==
  LET s1 == [s EXCEPT !.status = "creating_repo", !.executionPlan = PublishSeed]
  IN IF r.snap.githubConfig.repo = "ok" THEN Invoke(r, s1, "host", "details", FALSE)
     ELSE Catch(r, s1, "other")

\* lines 412-415: generateReadmeAgent is called without the signal
publishAfterRepo(r, s) ==
  LET s1 == SetTask(SetTask(s, <<"check-repo", 0>>, "completed"),
                    <<"push-files", 0>>, "running")
  IN Invoke(r, s1, "gen", "readme", FALSE)

\* line 411 without the createRepository call
publishAfterDetails_NeverCreates(r, s, status, ab) ==
  IF status = 200 THEN publishAfterRepo([r EXCEPT !.details = "present"], s)
  ELSE IF status = 404 THEN publishAfterRepo([r EXCEPT !.details = "absent"], s)
  ELSE Catch(r, s, "other")

\* line 411 and fetchRepoDetails lines 180-188
publishAfterDetails(r, s, status, ab) ==
  IF status = 200 THEN publishAfterRepo([r EXCEPT !.details = "present"], s)
  ELSE IF status = 404 THEN Invoke([r EXCEPT !.details = "absent"], s, "host", "create", ab)
  ELSE Catch(r, s, "other")

\* createRepository with 422 (the name already exists) treated as a failure
publishAfterCreate_ExistsAborts(r, s, status) ==
  LET r1 == [r EXCEPT !.createStatus = status] IN
  IF status # 200 THEN Catch(r1, s, "other")
  ELSE publishAfterRepo([r1 EXCEPT !.created = TRUE], s)

\* createRepository lines 74-77
publishAfterCreate(r, s, status) ==
  LET r1 == [r EXCEPT !.createStatus = status] IN
  IF status # 200 /\ status # 422 THEN Catch(r1, s, "other")
  ELSE publishAfterRepo([r1 EXCEPT !.created = TRUE], s)

\* lines 139-142 with a marker sent whatever the read answered
shaFound_Always(status) == TRUE

\* publishToGithub lines 136-143: `sha` is set iff the read answered ok; a
\* read that threw (status 0 here) is swallowed and leaves it empty
shaFound(status) == status = 200

\* publishToGithub lines 136-154: the read of the current file has settled
\* with `status`; the PUT of the file follows, `sha: sha || undefined`
pushPut(r, s, status, ab) ==
  Invoke([r EXCEPT !.checkStatus = status, !.sha = shaFound(status)], s, "host", "put", ab)

\* publishToGithub lines 132-138 and App lines 417-419: the head of the file
\* loop, and what follows the loop
pushLoop(r, s, ab) ==
  IF r.k <= Len(r.files)
  THEN IF ab THEN Catch(r, s, "abort")
       ELSE LET s1 == [s EXCEPT !.currentDetail = "sending"]
                c == beginCall(NewCall("host", HostRetries), apiKey, ab)
            IN IF c.phase = "inflight"
               THEN Step([r EXCEPT !.pc = "check", !.call = c], s1)
               ELSE pushPut(r, s1, 0, ab)
  ELSE LET s1 == SetTask(SetTask(s, <<"push-files", 0>>, "completed"),
                         <<"enable-pages", 0>>, "running")
       IN Invoke(r, s1, "host", "pages", ab)

\* publishToGithub lines 116-130
publishFiles(hubs, articles, readme) ==
  [j \in 1..Len(hubs) |-> <<"hub", hubs[j].id>>]
    \o [j \in 1..Len(articles) |-> <<"article", articles[j].id>>]
    \o (IF readme THEN << <<"readme", 0>> >> ELSE <<>>)

\* line 416; readme is TRUE iff the generated text is non-empty
publishAfterReadme(r, s, readme, ab) ==
  pushLoop([r EXCEPT !.files = publishFiles(r.snap.hubs, r.snap.articles, readme),
                     !.k = 1], s, ab)

\* publishToGithub lines 156-159
publishAfterPut(r, s, status, ab) ==
  IF status # 200 THEN Catch(r, s, "other")
  ELSE pushLoop([r EXCEPT !.k = r.k + 1, !.checkStatus = 0], s, ab)

\* enablePages lines 96-100 (a response that is neither ok nor 409 is only
\* logged) and App lines 420-421
publishAfterPages(r, s, status) ==
  LET s1 == SetTask(s, <<"enable-pages", 0>>, "completed")
  IN Step(Done([r EXCEPT !.pagesStatus = status], "success"), Rest(s1, "deployed"))

(***************************************************************************)
(* What the remote services answer: the bounded inputs of the model        *)
(***************************************************************************)
MaxPlanSteps == 1         \* entries of tunePlan.tasks
NoSuchId == 9             \* a tuning target no page carries

GenOutcomes == {Ok, Err("rate429"), Err("other")}
HostOutcomes == {Resp(200), Resp(404), Resp(422), Resp(401), Resp(500), Err("network")}

\* 409 is answered to the two writes that can conflict
ConflictCalls == {"create", "pages"}

RunOutcomes(r, ab) ==
  IF r.call.wrapper = "gen" THEN GenOutcomes
  ELSE IF ab THEN {Err("abort")}
  ELSE IF r.pc \in ConflictCalls THEN HostOutcomes \cup {Resp(409)}
  ELSE HostOutcomes

StrategyHubs(n) == [j \in 1..n |-> Hub(j, j, 0)]

TreeChoices ==
  { <<>>,
    << File(0, "readme.md"), File(1, "index.html"), File(0, "index.html") >> }
\* what analyzeRepoStructureAgent may answer: hubs and articles
StructureChoices ==
  { [hubs |-> <<>>, arts |-> <<>>],
    [hubs |-> << Hub(0, 0, 0) >>, arts |-> << Article(3, 0, 0) >>],
    [hubs |-> << Hub(1, 1, 0), Hub(2, 2, 0) >>, arts |-> << Article(1, 1, 0) >>] }

NoPayload ==
  [n |-> 0, branch |-> "main", tree |-> <<>>, hubs |-> <<>>, arts |-> <<>>,
   readme |-> FALSE]

Payloads(r) ==
  CASE r.pc = "strategy"  -> {[NoPayload EXCEPT !.n = n] : n \in 0..MaxHubs}
    [] r.pc = "plan"      -> {[NoPayload EXCEPT !.n = n] : n \in 0..MaxPlanSteps}
    [] r.pc = "info"      -> {[NoPayload EXCEPT !.branch = b] : b \in {"main", "master"}}
    [] r.pc = "tree"      -> {[NoPayload EXCEPT !.tree = t] : t \in TreeChoices}
    [] r.pc = "structure" -> {[NoPayload EXCEPT !.hubs = c.hubs, !.arts = c.arts] :
                                c \in StructureChoices}
    [] r.pc = "readme"    -> {[NoPayload EXCEPT !.readme = b] : b \in BOOLEAN}
    [] OTHER              -> {NoPayload}

(***************************************************************************)
(* Resuming a handler after its awaited call settled                       *)
(***************************************************************************)
Continue(r, s, status, pl, ab) ==
  CASE r.pc = "identity"  -> buildAfterIdentity(r, s, ab)
    [] r.pc = "strategy"  -> buildAfterStrategy(r, s, StrategyHubs(pl.n), ab)
    [] r.pc = "page"      -> buildAfterPage(r, s, ab)
    [] r.pc = "finalize"  -> buildAfterFinalize(r, s)
    [] r.pc = "plan"      -> tuneAfterPlan(r, s, pl.n, ab)
    [] r.pc = "refactor"  -> tuneAfterRefactor(r, s, ab)
    [] r.pc = "info"      -> importAfterInfo(r, s, status, pl.branch, ab)
    [] r.pc = "tree"      -> importAfterTree(r, s, status, pl.tree, ab)
    [] r.pc = "content"   -> importAfterContent(r, s, status, ab)
    [] r.pc = "brand"     -> importAfterBrand(r, s, ab)
    [] r.pc = "structure" -> importAfterStructure(r, s, pl.hubs, pl.arts, ab)
    [] r.pc = "restore"   -> importAfterRestore(r, s, status, ab)
    [] r.pc = "details"   -> publishAfterDetails(r, s, status, ab)
    [] r.pc = "create"    -> publishAfterCreate(r, s, status)
    [] r.pc = "readme"    -> publishAfterReadme(r, s, pl.readme, ab)
    [] r.pc = "check"     -> pushPut(r, s, status, ab)
    [] r.pc = "put"       -> publishAfterPut(r, s, status, ab)
    [] r.pc = "pages"     -> publishAfterPages(r, s, status)

\* the awaited call threw: publishToGithub's `try { ... } catch {}` around the
\* read of the existing file swallows it, everything else reaches the
\* handler's catch
OnThrow(r, s, err, ab) ==
  IF r.pc = "check" THEN pushPut(r, s, 0, ab) ELSE Catch(r, s, err)

\* the signal a run hands to its current call: generateReadmeAgent gets none
CallAborted(r) == r.pc # "readme" /\ r.sig \in aborted

\* the history of attempts is kept by the retry harness only
Slim(c) == [c EXCEPT !.hist = <<>>, !.waits = <<>>]

Settle(r, s, c, pl) ==
  LET ab == r.sig \in aborted IN
  IF c.phase \in {"inflight", "wait"} THEN Step([r EXCEPT !.call = Slim(c)], s)
  ELSE IF c.phase = "returned" THEN Continue(r, s, c.result.status, pl, ab)
  ELSE OnThrow(r, s, c.result.err, ab)

(***************************************************************************)
(* The application                                                         *)
(***************************************************************************)
NoOp == [op |-> "none", id |-> <<"none", 0>>, status |-> "none", before |-> <<>>]

\* a start request: which handler, and whether the two fields its guard
\* reads beside the project state were filled in (a: the instruction or the
\* repository reference of the import dialog; b: the hosting credential)
Request(kind, a, b) == [kind |-> kind, a |-> a, b |-> b]
NoRequest == Request("none", TRUE, TRUE)

AppInit ==
  /\ state = InitialState
  /\ abortRef = 0
  /\ aborted = {}
  /\ runs = <<>>
  /\ request = NoRequest

\* App lines 78-79: a project an earlier session built and saved
SavedState ==
  [InitialState EXCEPT !.status = "ready", !.identity = 8,
                       !.hubs = << HomeHub, Hub(1, 1, 1) >>,
                       !.githubConfig = [repo |-> "ok", branch |-> "main"]]

\* a first visit with or without the credential, or a saved project opened
\* by a build that has no credential
Init ==
  /\ abortRef = 0
  /\ aborted = {}
  /\ runs = <<>>
  /\ \/ apiKey \in BOOLEAN /\ state = InitialState
     \/ apiKey = FALSE /\ state = SavedState
  /\ call = NoCall
  /\ token = FALSE
  /\ ledgerOp = NoOp
  /\ request = NoRequest

\* the progress overlay (App line 509) covers every start button while the
\* status is not a resting one
CanStart == state.status \in Resting /\ Len(runs) < MaxRuns
\* the dashboard tab is rendered only with an identity (App line 619)
OnDashboard == CanStart /\ state.identity # 0

\* startTask (App lines 149-152) and the handler up to its first await
Launch(res) ==
  /\ runs' = Append(runs, res.r)
  /\ state' = res.s
  /\ abortRef' = Len(runs) + 1
  /\ UNCHANGED <<aborted, call, token, apiKey, ledgerOp>>

\* a handler that returns at its guard, before startTask
Return == UNCHANGED <<state, runs, abortRef, aborted, call, token, apiKey, ledgerOp>>

\* line 398 without its `!state.githubConfig.token` half
publishPrecondition_RepoOnly(s, tok) == s.githubConfig.repo # "none"

\* the guards of lines 260, 338 and 398, negated
tunePrecondition(s, instruction) == s.identity # 0 /\ instruction
importPrecondition(repo, tok) == repo /\ tok
publishPrecondition(s, tok) == s.githubConfig.repo # "none" /\ tok

StartBuild ==
  /\ CanStart
  /\ request' = Request("build", TRUE, TRUE)
  /\ Launch(buildStart(NewRun("build", Len(runs) + 1, state, 0), state))

StartTune ==
  /\ OnDashboard
  /\ \E instruction \in BOOLEAN,
        target \in {All, NoSuchId} \cup {state.hubs[j].id : j \in 1..Len(state.hubs)}
                     \cup {state.articles[j].id : j \in 1..Len(state.articles)} :
       /\ request' = Request("tune", instruction, TRUE)
       /\ IF tunePrecondition(state, instruction)
          THEN Launch(tuneStart(NewRun("tune", Len(runs) + 1, state, target), state))
          ELSE Return

StartImport ==
  /\ CanStart
  /\ \E repo \in BOOLEAN, tok \in BOOLEAN, repoOk \in BOOLEAN :
       /\ request' = Request("import", repo, tok)
       /\ IF importPrecondition(repo, tok)
          THEN Launch(importStart(NewRun("import", Len(runs) + 1, state, 0), state, repoOk))
          ELSE Return

StartPublish ==
  /\ OnDashboard
  /\ \E tok \in BOOLEAN :
       /\ request' = Request("publish", TRUE, tok)
       /\ IF publishPrecondition(state, tok)
          THEN Launch(publishStart(NewRun("publish", Len(runs) + 1, state, 0), state))
          ELSE Return

\* updateGithubConfig (App line 140) from the dashboard's repository field
UpdateGithubConfig ==
  /\ OnDashboard
  /\ \E v \in {"ok", "bad"} :
       /\ v # state.githubConfig.repo
       /\ state' = [state EXCEPT !.githubConfig.repo = v]
  /\ request' = NoRequest
  /\ UNCHANGED <<abortRef, aborted, runs, call, token, apiKey, ledgerOp>>

\* handleAbort resetting the whole project state instead of three fields
HandleAbort_ResetsProject ==
  /\ state.status \notin Resting
  /\ aborted' = IF abortRef # 0 THEN aborted \cup {abortRef} ELSE aborted
  /\ abortRef' = 0
  /\ state' = InitialState
  /\ request' = NoRequest
  /\ UNCHANGED <<runs, call, token, apiKey, ledgerOp>>

\* handleAbort aborting every controller, also those of later runs
HandleAbort_AbortsEveryToken ==
  /\ state.status \notin Resting
  /\ aborted' = 1..MaxRuns
  /\ abortRef' = 0
  /\ state' = Rest(state, IF state.identity # 0 THEN "ready" ELSE "idle")
  /\ request' = NoRequest
  /\ UNCHANGED <<runs, call, token, apiKey, ledgerOp>>

\* handleAbort (App lines 154-160); its button is part of the overlay
HandleAbort ==
  /\ state.status \notin Resting
  /\ aborted' = IF abortRef # 0 THEN aborted \cup {abortRef} ELSE aborted
  /\ abortRef' = 0
  /\ state' = Rest(state, IF state.identity # 0 THEN "ready" ELSE "idle")
  /\ request' = NoRequest
  /\ UNCHANGED <<runs, call, token, apiKey, ledgerOp>>

\* the call a run awaits settles
RunDeliver ==
  \E i \in 1..Len(runs) :
    /\ runs[i].call.phase = "inflight"
    /\ \E out \in RunOutcomes(runs[i], CallAborted(runs[i])) :
       \E pl \in IF out.status = 200 THEN Payloads(runs[i]) ELSE {NoPayload} :
         LET res == Settle(runs[i], state,
                           deliver(runs[i].call, out, CallAborted(runs[i])), pl)
         IN /\ runs' = [runs EXCEPT ![i] = res.r]
            /\ state' = res.s
    /\ request' = NoRequest
    /\ UNCHANGED <<abortRef, aborted, call, token, apiKey, ledgerOp>>

\* the backoff timer of a run's call fires
RunElapse ==
  \E i \in 1..Len(runs) :
    /\ runs[i].call.phase = "wait"
    /\ LET res == Settle(runs[i], state,
                         elapse(runs[i].call, CallAborted(runs[i])), NoPayload)
       IN /\ runs' = [runs EXCEPT ![i] = res.r]
          /\ state' = res.s
    /\ request' = NoRequest
    /\ UNCHANGED <<abortRef, aborted, call, token, apiKey, ledgerOp>>

Next ==
  \/ StartBuild
  \/ StartTune
  \/ StartImport
  \/ StartPublish
  \/ UpdateGithubConfig
  \/ HandleAbort
  \/ RunDeliver
  \/ RunElapse

Spec == Init /\ [][Next]_vars

\* the application when every remote call a run awaits returns or fails and
\* every backoff timer fires; nothing obliges the user to start or to cancel
SpecFair == Spec /\ WF_vars(RunDeliver) /\ WF_vars(RunElapse)

(***************************************************************************)
(* Ledger harness: the ledger operations on their own, over the task lists *)
(* the runners seed and append and the two statuses they ever set.         *)
(***************************************************************************)
LedgerSeeds == {BuildSeed, TuneSeed, ImportSeed, PublishSeed}
HubTaskLists == {hubTasks(StrategyHubs(n)) : n \in 0..MaxHubs}
TuneTaskLists ==
  {tuneTaskList(n, targetsToProcess([hubs |-> c.hubs, articles |-> c.arts], All)) :
     n \in 0..MaxPlanSteps, c \in StructureChoices}
SetStatuses == {"running", "completed"}
PlanIds(plan) == {plan[j].id : j \in 1..Len(plan)}

LedgerInit ==
  /\ AppInit
  /\ apiKey = TRUE
  /\ call = NoCall
  /\ token = FALSE
  /\ ledgerOp = NoOp

LedgerDo(op, id, st, plan) ==
  /\ ledgerOp' = [op |-> op, id |-> id, status |-> st, before |-> state.executionPlan]
  /\ state' = [state EXCEPT !.executionPlan = plan]
  /\ UNCHANGED <<abortRef, aborted, runs, call, token, apiKey, request>>

LedgerSeed ==
  \E tasks \in LedgerSeeds : LedgerDo("seed", <<"none", 0>>, "none", tasks)

LedgerAppend ==
  /\ Len(state.executionPlan) > 0
  /\ \E tasks \in IF state.executionPlan[1].id = <<"identity", 0>> THEN HubTaskLists
                  ELSE IF state.executionPlan[1].id = <<"plan-generation", 0>>
                       THEN TuneTaskLists ELSE {} :
       /\ Len(state.executionPlan) + Len(tasks) <= MaxLedger
       /\ PlanIds(state.executionPlan) \cap PlanIds(tasks) = {}
       /\ LedgerDo("append", <<"none", 0>>, "none", ledgerAppend(state.executionPlan, tasks))

LedgerSetStatus ==
  \E id \in PlanIds(state.executionPlan) \cup {<<"build", NoSuchId>>}, st \in SetStatuses :
    LedgerDo("setStatus", id, st, setTaskStatus(state.executionPlan, id, st))

LedgerClear ==
  /\ Len(state.executionPlan) > 0
  /\ LedgerDo("clear", <<"none", 0>>, "none", <<>>)

LedgerNext == LedgerSeed \/ LedgerAppend \/ LedgerSetStatus \/ LedgerClear

SpecLedger == LedgerInit /\ [][LedgerNext]_vars

(***************************************************************************)
(* Retry harness: one execution of either wrapper, with every maxRetries   *)
(* up to MaxAttempts, every outcome sequence and a cancel at any point.    *)
(***************************************************************************)
RetryInit ==
  /\ AppInit
  /\ ledgerOp = NoOp
  /\ apiKey \in BOOLEAN
  /\ token \in BOOLEAN
  /\ \E w \in {"gen", "host"}, m \in (1..MaxAttempts) \cup {GenMaxRetries, HostRetries} :
       call = NewCall(w, m)

RetryBegin ==
  /\ call.phase = "new"
  /\ call' = beginCall(call, apiKey, token)
  /\ UNCHANGED <<token, apiKey, state, abortRef, aborted, runs, ledgerOp, request>>

RetryDeliver ==
  /\ call.phase = "inflight"
  /\ \E out \in Outcomes(call, token) : call' = deliver(call, out, token)
  /\ UNCHANGED <<token, apiKey, state, abortRef, aborted, runs, ledgerOp, request>>

RetryElapse ==
  /\ call.phase = "wait"
  /\ call' = elapse(call, token)
  /\ UNCHANGED <<token, apiKey, state, abortRef, aborted, runs, ledgerOp, request>>

RetryCancel ==
  /\ ~token
  /\ call.phase \in {"new", "inflight", "wait"}
  /\ token' = TRUE
  /\ UNCHANGED <<call, apiKey, state, abortRef, aborted, runs, ledgerOp, request>>

RetryNext == RetryBegin \/ RetryDeliver \/ RetryElapse \/ RetryCancel

SpecRetry == RetryInit /\ [][RetryNext]_vars

\* the same execution when the wrapper is called, the operation it awaits
\* always returns or throws, and the backoff timer it awaits fires; nothing
\* obliges the user to cancel
SpecRetryFair ==
  /\ SpecRetry
  /\ WF_vars(RetryBegin) /\ WF_vars(RetryDeliver) /\ WF_vars(RetryElapse)

(***************************************************************************)
(* Retry Policy claims (checked under SpecRetry)                           *)
(***************************************************************************)
Last(q) == q[Len(q)]
\* an attempt that did not succeed: a thrown error, an HTTP 429 or an HTTP 5xx
Failed(out) ==
  out.kind = "err" \/ (out.kind = "resp" /\ (out.status = 429 \/ out.status >= 500))
\* the class of a failed attempt, in the spec's vocabulary
FailureClass(out) ==
  IF out.kind = "err" THEN out.cls
  ELSE IF out.status = 429 THEN "rate429" ELSE "http5xx"
AllRetryableFailures(h, n) ==
  \A j \in 1..n : h[j].kind = "err" /\ h[j].cls \in SpecRetryable
Terminal(c) == c.phase \in {"returned", "thrown"}
GenStarted == call.wrapper = "gen" /\ apiKey /\ call.phase # "new"

\* C3: for every k < maxAttempts, when the first k attempts of retryWithBackoff
\* fail with Retryable errors (token never canceled) the wrapper goes on to
\* attempt k+1, and when that attempt succeeds it returns the success value
\* after exactly k+1 invocations of the operation.
C3_RetryThenSuccess ==
  /\ (GenStarted /\ ~token /\ Len(call.hist) < call.max
        /\ AllRetryableFailures(call.hist, Len(call.hist)))
       => /\ call.phase \in {"wait", "inflight"}
          /\ call.inv = Len(call.hist) + (IF call.phase = "inflight" THEN 1 ELSE 0)
  /\ (GenStarted /\ ~token /\ Len(call.hist) >= 1 /\ Last(call.hist).kind = "ok"
        /\ AllRetryableFailures(call.hist, Len(call.hist) - 1))
       => /\ call.phase = "returned"
          /\ call.result.kind = "value"
          /\ call.inv = Len(call.hist)

C3_Witness ==
  /\ call.wrapper = "gen" /\ ~token /\ call.phase = "returned"
  /\ Len(call.hist) = 3 /\ call.inv = 3
  /\ AllRetryableFailures(call.hist, 2)

C5_ExhaustedIsWrapped ==
  (call.wrapper = "gen" /\ apiKey /\ ~token /\ Terminal(call)
     /\ Len(call.hist) = call.max
     /\ AllRetryableFailures(call.hist, call.max))
    => /\ call.inv = call.max
       /\ call.phase = "thrown"
       /\ call.result.wrapped

\* C6 (as claimed): called with a token that is already canceled, the wrapper
\* fails with Canceled and the operation is invoked zero times.
C6_CanceledBeforeStart ==
  [][(call.phase = "new" /\ token)
       => (call'.phase = "thrown" /\ call'.result = AbortError /\ call'.inv = 0)]_retryVars

\* C6 (amended): called with a token that is already canceled, the wrapper
\* invokes the operation zero times and fails with Canceled, except that the
\* content-generation wrapper without a credential fails with the
\* configuration error instead (its credential test comes first).
C6_CanceledBeforeStartAmended ==
  [][(call.phase = "new" /\ token)
       => /\ call'.phase = "thrown" /\ call'.inv = 0
          /\ call'.result = IF call.wrapper = "gen" /\ ~apiKey
                            THEN Thrown("config", FALSE) ELSE AbortError]_retryVars

C6_Witness ==
  /\ token /\ call.phase = "thrown" /\ call.result = AbortError
  /\ call.inv = 0 /\ call.hist = <<>>

\* C7: once the token is canceled, an attempt that fails and a backoff wait
\* that elapses both end the wrapper with Canceled, never with the operation's
\* own error, and the operation is not invoked again, whatever the error class
\* and however many attempts remain.
C7_CancelStopsRetry ==
  [][(token /\ call.phase \in {"inflight", "wait"})
       => /\ call'.inv = call.inv
          /\ (call.phase = "wait" => call'.phase = "thrown")
          /\ (call.phase = "inflight" /\ Failed(Last(call'.hist))
                => call'.phase = "thrown")
          /\ (call'.phase = "thrown" => call'.result = AbortError)]_retryVars

C7_Witness ==
  /\ call.wrapper = "gen" /\ token /\ call.phase = "thrown"
  /\ call.result = AbortError
  /\ Len(call.hist) = 1 /\ call.hist[1] = Err("other") /\ call.inv = 1
  /\ call.max = 3

AllStopped == Len(runs) >= 1 /\ \A i \in 1..Len(runs) : runs[i].pc = "done"

\* C1 (as claimed): for each of Build, Tune, Import and Publish and every
\* interleaving of cancelActive with the runner's steps, once the runner has
\* stopped executing the project state has a resting status, an empty ledger
\* and a cleared progress detail.
C1_StoppedMeansResting ==
  AllStopped => /\ state.status \in Resting
                /\ state.executionPlan = <<>>
                /\ state.currentDetail = "null"

\* C2 (as claimed): whenever a runner exits abnormally (fatal error, exhausted
\* retries or cancellation) the status it leaves is idle if the project state
\* holds no identity at that moment and ready if it holds one.
C2_AbnormalExitIsLastKnownGood ==
  [][\A i \in 1..Len(runs') :
       ((i > Len(runs) \/ runs[i].pc # "done")
          /\ runs'[i].pc = "done" /\ runs'[i].exit \in {"fatal", "canceled"})
         => state'.status = IF state'.identity # 0 THEN "ready" ELSE "idle"]_vars

\* C9 (as claimed): setStatus(id, status) changes the status of exactly the
\* one task whose id matches and nothing else: every other task, the order of
\* the tasks and the length of the ledger stay as they were, and with no task
\* of that id the ledger is left exactly as it was.
C9_SetStatusChangesOneTask ==
  ledgerOp.op = "setStatus" =>
    LET b == ledgerOp.before
        a == state.executionPlan
        hit == {j \in 1..Len(b) : b[j].id = ledgerOp.id}
    IN /\ Len(a) = Len(b)
       /\ Cardinality(hit) <= 1
       /\ \A j \in 1..Len(b) :
            a[j] = IF j \in hit THEN [b[j] EXCEPT !.status = ledgerOp.status] ELSE b[j]

\* C10 (as claimed): when Build appends the per-page and finalize tasks after
\* the strategy phase, or Tune the plan-step and per-target tasks after the
\* plan phase, every task that was in the ledger immediately before the append
\* is still there afterwards, in its position and with its status, and the new
\* tasks follow.
C10_AppendKeepsEarlierTasks ==
  [][\A i \in 1..Len(runs) :
       (runs[i].pc \in {"strategy", "plan"}
          /\ runs'[i].pc \in {"page", "finalize", "refactor"})
         => LET done == IF runs[i].pc = "strategy" THEN <<"strategy", 0>>
                        ELSE <<"plan-generation", 0>>
                before == setTaskStatus(state.executionPlan, done, "completed")
            IN /\ Len(state'.executionPlan) >= Len(before)
               /\ SubSeq(state'.executionPlan, 1, Len(before)) = before]_vars

(***************************************************************************)
(* Pipeline claims, continued                                              *)
(***************************************************************************)
RunningTasks(plan) == {j \in 1..Len(plan) : plan[j].status = "running"}
\* nothing was ever canceled: the handlers then run strictly one after another,
\* so the ledger is written by one pipeline run at a time
NeverCanceled == aborted = {}

\* C11 (as claimed): in every reachable state of a pipeline run, even one
\* that no cancellation interferes with, at most one task of the ledger has
\* status running.
C11_AtMostOneRunning ==
  NeverCanceled => Cardinality(RunningTasks(state.executionPlan)) <= 1

\* run i returns in this step, the way `how` says
Exits(i, kind, how) ==
  /\ runs[i].kind = kind /\ runs[i].pc # "done"
  /\ runs'[i].pc = "done" /\ runs'[i].exit = how

\* C12: a Build run whose calls all succeed, with a strategy of n hubs, ends
\* with n+1 hubs: the synthesized homepage (reserved slug index, here 0) first,
\* then the n content hubs in strategy order, each with its generated markup;
\* the status is ready, the ledger empty, the detail cleared and an identity is
\* stored (the run's own identity when nothing was ever canceled).
C12_BuildSuccessResult ==
  [][\A i \in 1..Len(runs) :
       Exits(i, "build", "success")
         => LET n == Len(runs[i].hubs) IN
            /\ Len(state'.hubs) = n + 1
            /\ state'.hubs[1] = HomeHub
            /\ state'.hubs[1].slug = 0
            /\ \A j \in 1..n : state'.hubs[j + 1] = [runs[i].hubs[j] EXCEPT !.html = 1]
            /\ state'.status = "ready"
            /\ state'.executionPlan = <<>>
            /\ state'.currentDetail = "null"
            /\ state'.identity # 0
            /\ (NeverCanceled => state'.identity = runs[i].identity)]_vars

C12_Witness ==
  /\ NeverCanceled
  /\ \E i \in 1..Len(runs) : runs[i].kind = "build" /\ runs[i].exit = "success"
  /\ Len(state.hubs) = MaxHubs + 1
  /\ state.hubs[1] = HomeHub /\ state.hubs[2].id = 1 /\ state.hubs[3].id = 2
  /\ state.status = "ready" /\ state.executionPlan = <<>>

\* the Build run the abort controller currently belongs to is inside its
\* per-page loop (a page-generation call is pending)
BuildInPageLoop(i) ==
  /\ i # 0 /\ runs[i].kind = "build" /\ runs[i].pc = "page"
\* this step is handleAbort: the only step that changes the status and leaves
\* every handler where it is
AbortStep == runs' = runs /\ state'.status # state.status

\* C13 (as claimed): when Build is canceled during its per-page loop the
\* ledger is emptied, the status becomes idle for a run that began without an
\* identity (ready only when an identity existed before the run), and the
\* canceled run starts no further page-generation call.
C13_CancelInPageLoop ==
  [][/\ (AbortStep /\ BuildInPageLoop(abortRef))
          => /\ state'.executionPlan = <<>>
             /\ state'.status = IF runs[abortRef].snap.identity # 0 THEN "ready" ELSE "idle"
     /\ \A i \in 1..Len(runs) :
          (runs[i].kind = "build" /\ runs[i].sig \in aborted
             /\ runs'[i].pc \in {"page", "finalize"})
            => runs'[i].pc = runs[i].pc /\ runs'[i].call.inv = runs[i].call.inv]_vars

\* run i, possibly invoked in this very step, returns in this step
Returns(i) == (i > Len(runs) \/ runs[i].pc # "done") /\ runs'[i].pc = "done"

\* C14: every Tune run that starts ends with status ready and an empty
\* ledger, however it ends (success, a failing call, cancellation); a run
\* that has ended makes no further call; with target all over h hubs and a
\* articles a run that ends in success made exactly h+a refactor calls (the
\* k-th is pending while k is the loop position).
C14_TuneEndsReady ==
  [][\A i \in 1..Len(runs') :
       /\ (runs'[i].kind = "tune" /\ Returns(i))
            => state'.status = "ready" /\ state'.executionPlan = <<>>
       /\ (i <= Len(runs) /\ runs[i].kind = "tune" /\ runs[i].pc = "done")
            => runs'[i] = runs[i]
       /\ (i <= Len(runs) /\ runs[i].kind = "tune" /\ runs[i].pc = "refactor"
             /\ runs'[i].pc = "refactor")
            => runs'[i].k \in {runs[i].k, runs[i].k + 1}
       /\ (i <= Len(runs) /\ Exits(i, "tune", "success") /\ runs[i].target = All)
            => LET h == Len(runs[i].snap.hubs)
                   a == Len(runs[i].snap.articles)
               IN IF runs[i].pc = "refactor"
                  THEN runs[i].k = h + a /\ Len(runs[i].targets) = h + a
                  ELSE h + a = 0]_vars

C14_Witness ==
  /\ \E i \in 1..Len(runs) : runs[i].kind = "tune" /\ runs[i].exit = "fatal"
  /\ Len(state.hubs) >= 2
  /\ state.status = "ready" /\ state.executionPlan = <<>>

\* C15 (as claimed): when a Tune run over M targets fails on the refactor call
\* for target N+1, the project state it leaves carries the refactored markup
\* of the first N targets (the run's updatedHubs / updatedArticles at that
\* point) and the original markup of the other M-N.
C15_PartialTuneRetained ==
  [][\A i \in 1..Len(runs) :
       (NeverCanceled /\ Exits(i, "tune", "fatal") /\ runs[i].pc = "refactor")
         => /\ state'.status = "ready"
            /\ state'.hubs = runs[i].upHubs
            /\ state'.articles = runs[i].upArts]_vars

PushPhase == {"readme", "check", "put", "pages"}

\* C16: in Publish createRepository is called exactly when fetchRepoDetails
\* answered absent (null), and it has completed before the push phase (README,
\* file reads and writes, Pages) begins: while it is pending the metadata was
\* absent, and in the push phase the repository was created iff it was absent.
C16_CreateIffAbsent ==
  \A i \in 1..Len(runs) :
    runs[i].kind = "publish" =>
      /\ runs[i].pc = "details" => runs[i].details = "unknown" /\ ~runs[i].created
      /\ runs[i].pc = "create" => runs[i].details = "absent" /\ ~runs[i].created
      /\ runs[i].pc \in PushPhase
           => /\ runs[i].details \in {"present", "absent"}
              /\ runs[i].created <=> runs[i].details = "absent"

C16_Witness ==
  \E i \in 1..Len(runs) :
    /\ runs[i].kind = "publish" /\ runs[i].pc = "put"
    /\ runs[i].details = "absent" /\ runs[i].created

\* C17 (as claimed): a Publish run that fails fatally ends with status ready;
\* it ends with status deployed only when every phase succeeded, which for
\* the enable-Pages call means a success or a 409 (already enabled) response:
\* any other error status from that call ends the run in ready.
C17_DeployedOnlyIfAllSucceeded ==
  [][\A i \in 1..Len(runs') :
       (NeverCanceled /\ runs'[i].kind = "publish" /\ Returns(i))
         => /\ runs'[i].exit = "fatal" => state'.status = "ready"
            /\ state'.status = "deployed"
                 => /\ runs'[i].exit = "success"
                    /\ runs'[i].pagesStatus \in {200, 409}]_vars

\* C18 (as claimed): a Publish run moves the status through creating_repo,
\* pushing_files, enabling_pages and deployed in that order: the status is
\* creating_repo while the repository is ensured, pushing_files while files
\* are read and written, and enabling_pages while the enable-Pages call is
\* pending.
C18_PublishStatusSequence ==
  \A i \in 1..Len(runs) :
    (NeverCanceled /\ runs[i].kind = "publish")
      => /\ runs[i].pc \in {"details", "create"} => state.status = "creating_repo"
         /\ runs[i].pc \in {"check", "put"} => state.status = "pushing_files"
         /\ runs[i].pc = "pages" => state.status = "enabling_pages"

\* C19: a successful Import run ends with status ready, an empty ledger and
\* a cleared detail, and stores the identity, the hubs (in the order inferred)
\* and the articles it inferred (runs[i].hubs / arts once the restoration loop
\* awaits a file); the stored branch is the repository's default
\* branch when fetchRepoDetails found the repository and the initial branch
\* main when it answered absent, in which case the run went on to the tree
\* fetch with that branch.
C19_ImportSuccessResult ==
  [][\A i \in 1..Len(runs) :
       /\ Exits(i, "import", "success")
            => /\ state'.status = "ready"
               /\ state'.executionPlan = <<>>
               /\ state'.currentDetail = "null"
               /\ state'.identity = runs[i].identity /\ state'.identity # 0
               /\ IF runs[i].pc = "restore"
                  THEN /\ Len(state'.hubs) = Len(runs[i].hubs)
                       /\ \A j \in 1..Len(runs[i].hubs) :
                            state'.hubs[j].id = runs[i].hubs[j].id
                       /\ state'.articles = runs[i].arts
                  ELSE \* no page to restore: the answer of the structure call
                       \E c \in StructureChoices :
                         state'.hubs = c.hubs /\ state'.articles = c.arts
               /\ runs[i].details # "unknown"
               /\ state'.githubConfig.branch =
                    IF runs[i].details = "absent" THEN "main" ELSE runs[i].details
       /\ (runs[i].kind = "import" /\ runs[i].pc = "info"
             /\ runs'[i].details = "absent")
            => runs'[i].pc = "tree" /\ runs'[i].branch = "main"]_vars

C19_Witness ==
  /\ \E i \in 1..Len(runs) : runs[i].kind = "import" /\ runs[i].exit = "success"
  /\ state.status = "ready" /\ state.executionPlan = <<>>
  /\ state.githubConfig.branch = "master"
  /\ Len(state.hubs) = 2 /\ Len(state.articles) = 1 /\ state.identity # 0

\* C20: handleAbort (cancelActive) empties the ledger, clears the progress
\* detail and sets a resting status, and leaves the identity, the hubs, the
\* articles and the hosting config of the project state as they were.
C20_CancelKeepsArtifacts ==
  [][AbortStep
       => /\ state'.executionPlan = <<>>
          /\ state'.currentDetail = "null"
          /\ state'.status \in Resting
          /\ state'.identity = state.identity
          /\ state'.hubs = state.hubs
          /\ state'.articles = state.articles
          /\ state'.githubConfig = state.githubConfig
          /\ abortRef' = 0]_vars

C20_Witness ==
  /\ aborted # {} /\ abortRef = 0
  /\ state.status = "ready" /\ state.executionPlan = <<>> /\ state.currentDetail = "null"
  /\ state.identity # 0 /\ Len(state.hubs) = 2 /\ state.hubs[1].html = 0
  /\ \E i \in 1..Len(runs) : runs[i].kind = "build" /\ runs[i].pc = "page"

(***************************************************************************)
(* The workflow definition table (App lines 22-54) and its lookup          *)
(***************************************************************************)
WorkflowStep(id, statuses) == [id |-> id, statuses |-> statuses]

\* App lines 22-54, in the key order `for (const key in WORKFLOWS)` visits
WORKFLOWS ==
  << [key |-> "build",
      steps |-> << WorkflowStep("phase1", {"building_identity"}),
                   WorkflowStep("phase2", {"generating_strategy"}),
                   WorkflowStep("phase3", {"generating_hubs"}),
                   WorkflowStep("phase4", {"ready"}) >>],
     [key |-> "deploy",
      steps |-> << WorkflowStep("phase1", {"creating_repo"}),
                   WorkflowStep("phase2", {"pushing_files"}),
                   WorkflowStep("phase3", {"enabling_pages", "deployed"}) >>],
     [key |-> "import",
      steps |-> << WorkflowStep("phase1", {"importing"}),
                   WorkflowStep("phase2", {"analyzing_site"}) >>],
     [key |-> "tune",
      steps |-> << WorkflowStep("planning", {"tuning_design"}),
                   WorkflowStep("execution", {"tuning_design"}) >>] >>

\* the (definition, step) positions whose status set holds `status`
StepsWith(status) ==
  {p \in (1..Len(WORKFLOWS)) \X (1..4) :
     /\ p[2] <= Len(WORKFLOWS[p[1]].steps)
     /\ status \in WORKFLOWS[p[1]].steps[p[2]].statuses}

\* App lines 163-170: the first definition with a matching step and the first
\* such step in it; <<0, 0>> stands for null
getCurrentWorkflowInfo(status) ==
  LET hits == StepsWith(status) IN
  IF hits = {} THEN <<0, 0>>
  ELSE CHOOSE p \in hits :
         \A q \in hits : p[1] < q[1] \/ (p[1] = q[1] /\ p[2] <= q[2])

\* C21 (as claimed): in the workflow definition table the status the project
\* is in belongs to the status set of at most one step across all workflow
\* definitions, so the lookup's result is the only step that matches.
C21_StatusInOneStep ==
  /\ Cardinality(StepsWith(state.status)) <= 1
  /\ StepsWith(state.status) \subseteq {getCurrentWorkflowInfo(state.status)}

(***************************************************************************)
(* Concurrency and ordering claims                                         *)
(***************************************************************************)
\* run i takes a step (its awaited call settles or its timer fires)
Moves(i) == runs'[i] # runs[i]
Canceled(i) == runs[i].sig \in aborted

\* C22 (as claimed): after a run has been canceled it performs no further
\* write to the status, the ledger or the progress detail of the project
\* state; in particular its continuation never changes those fields while a
\* pipeline started after the cancel is running.
C22_CanceledRunWritesNothing ==
  [][\A i \in 1..Len(runs) :
       (Canceled(i) /\ Moves(i))
         => /\ state'.status = state.status
            /\ state'.executionPlan = state.executionPlan
            /\ state'.currentDetail = state.currentDetail]_vars

\* a task status moving one step forward, or staying
Forward(a, b) ==
  \/ a = b
  \/ a = "pending" /\ b = "running"
  \/ a = "running" /\ b \in {"completed", "failed"}
\* position j holds the same task before and after the step
SameTask(j) ==
  /\ j <= Len(state.executionPlan) /\ j <= Len(state'.executionPlan)
  /\ state'.executionPlan[j].id = state.executionPlan[j].id
\* Import without an index file sets fetch-content running and completed in
\* one synchronous stretch (App lines 364-367)
SetAndCompletedAtOnce(j) ==
  /\ state.executionPlan[j].id = <<"fetch-content", 0>>
  /\ state.executionPlan[j].status = "pending"
  /\ state'.executionPlan[j].status = "completed"

\* C23 (as claimed): within a run that no cancellation interferes with, each
\* ledger task's status only moves forward along pending -> running ->
\* completed (or failed): no task skips running, none moves backward, and
\* when a task is set to running every task before it in the ledger has
\* reached completed.
C23_TaskStatusMovesForward ==
  [][NeverCanceled =>
       \A j \in 1..Len(state'.executionPlan) :
         SameTask(j) =>
           /\ \/ Forward(state.executionPlan[j].status, state'.executionPlan[j].status)
              \/ SetAndCompletedAtOnce(j)
           /\ (state.executionPlan[j].status = "pending"
                 /\ state'.executionPlan[j].status = "running")
                => \A m \in 1..(j - 1) : state'.executionPlan[m].status = "completed"]_vars

LoopPcs == {"page", "refactor", "restore"}
\* the list a per-item loop of run r walks, and the call that follows it
LoopItems(r) == IF r.pc = "refactor" THEN r.targets ELSE r.hubs
TaskHas(plan, id, st) == \E j \in 1..Len(plan) : plan[j].id = id /\ plan[j].status = st
\* run i, awaiting the call for item k, has applied that item's update in the
\* step: the markup is stored and (Build, Tune) the item's task is completed
ItemApplied(i) ==
  LET r == runs[i]
      item == LoopItems(r)[r.k]
  IN CASE r.pc = "page" ->
            /\ runs'[i].pc \in {"page", "finalize"}
                 => runs'[i].upHubs = Append(r.upHubs, [item EXCEPT !.html = 1])
            /\ (NeverCanceled /\ runs'[i].pc # "done")
                 => TaskHas(state'.executionPlan, BuildId(item), "completed")
       [] r.pc = "refactor" ->
            /\ runs'[i].pc = "refactor"
                 => LET q == IF item.type = "hub" THEN runs'[i].upHubs ELSE runs'[i].upArts
                    IN \E j \in 1..Len(q) : q[j].id = item.id /\ q[j].html = TunedHtml(r)
            /\ (NeverCanceled /\ runs'[i].pc # "done")
                 => TaskHas(state'.executionPlan, TuneId(item), "completed")
       [] OTHER ->
            runs'[i].pc = "restore"
              => /\ Len(runs'[i].upHubs) = runs'[i].k - 1
                 /\ runs'[i].upHubs[r.k].html =
                      ContentOf(r.files[matchingFile(r.files, r.indexFile, item)])

\* C24: in the per-item loops (Build page generation, Tune target refactor,
\* Import content restoration) the calls are issued in list order with one
\* call outstanding per run: a run in a loop awaits exactly one call, for the
\* item at its position k; the position only moves forward, and only in the
\* step in which that call returned and the item's update was applied; Build
\* and Tune move to the next item (Import to the next hub that has a file);
\* the loop is left for the next phase only after its last item.
C24_LoopCallsSequential ==
  [][\A i \in 1..Len(runs) :
       runs[i].pc \in LoopPcs =>
         LET r == runs[i]
             n == runs'[i]
             last == Len(LoopItems(r))
         IN /\ r.k \in 1..last
            /\ r.call.phase \in {"inflight", "wait"}
            /\ n.pc = r.pc =>
                 /\ n.k >= r.k
                 /\ (n.k = r.k => n.upHubs = r.upHubs /\ n.upArts = r.upArts)
                 /\ (n.k > r.k =>
                       /\ r.call.phase = "inflight"
                       /\ n.call.phase = "inflight" /\ n.call.inv = 1
                       /\ (r.pc # "restore" => n.k = r.k + 1)
                       /\ (r.pc = "restore" =>
                             \A m \in (r.k + 1)..(n.k - 1) :
                               matchingFile(r.files, r.indexFile, r.hubs[m]) = 0)
                       /\ ItemApplied(i))
            /\ (n.pc = "finalize" \/ (n.pc = "done" /\ n.exit = "success"))
                 => /\ r.call.phase = "inflight"
                    /\ (r.pc # "restore" => r.k = last)
                    /\ (r.pc = "restore" =>
                          \A m \in (r.k + 1)..last :
                            matchingFile(r.files, r.indexFile, r.hubs[m]) = 0)
                    /\ ItemApplied(i)]_vars

C24_Witness ==
  \E i \in 1..Len(runs) :
    /\ NeverCanceled
    /\ runs[i].kind = "build" /\ runs[i].pc = "page" /\ runs[i].k = 2
    /\ Len(runs[i].upHubs) = 1 /\ runs[i].upHubs[1].id = runs[i].hubs[1].id
    /\ TaskHas(state.executionPlan, BuildId(runs[i].hubs[1]), "completed")
    /\ TaskHas(state.executionPlan, BuildId(runs[i].hubs[2]), "running")
    /\ runs[i].call.phase = "inflight"

\* run i starts a remote-call attempt in this step: its awaited call settled
\* or its backoff timer fired, and an attempt is in flight afterwards
StartsAttempt(i) == Moves(i) /\ runs'[i].call.phase = "inflight"

\* C25 (as claimed): in every runner, once cancelActive has set the run's
\* token, that run starts no new remote-call attempt, neither a first attempt
\* nor a retry, of a content-generation or a hosting call; this includes the
\* README generation call of Publish.
C25_NoAttemptAfterCancel ==
  [][\A i \in 1..Len(runs) : Canceled(i) => ~StartsAttempt(i)]_vars

(***************************************************************************)
(* Target resolution, conflicts and the push phase                         *)
(***************************************************************************)
HasId(q, id) == \E j \in 1..Len(q) : q[j].id = id
\* the first entry of q with this id
FirstWithId(q, id) == q[CHOOSE j \in 1..Len(q) : q[j].id = id /\ \A m \in 1..(j - 1) : q[m].id # id]

\* ts is the selection the claim prescribes for `target` over these pages
Selected(ts, hubs, arts, target) ==
  IF target = All
  THEN /\ Len(ts) = Len(hubs) + Len(arts)
       /\ \A j \in 1..Len(hubs) : ts[j].type = "hub" /\ ts[j].id = hubs[j].id
       /\ \A j \in 1..Len(arts) :
            ts[Len(hubs) + j].type = "article" /\ ts[Len(hubs) + j].id = arts[j].id
  ELSE IF HasId(hubs, target)
       THEN Len(ts) = 1 /\ ts[1].type = "hub" /\ ts[1].id = target
              /\ ts[1].html = FirstWithId(hubs, target).html
  ELSE IF HasId(arts, target)
       THEN Len(ts) = 1 /\ ts[1].type = "article" /\ ts[1].id = target
              /\ ts[1].html = FirstWithId(arts, target).html
  ELSE ts = <<>>

\* C26: when the plan call of a Tune run has returned, the targets selected
\* are: for target all every hub followed by every article; for any other id
\* exactly one page, the hub with that id if one exists, otherwise the
\* article with that id; when the id matches neither, no target is selected,
\* no refactor call is made and the run returns at once with status ready.
C26_TargetResolution ==
  [][\A i \in 1..Len(runs) :
       (runs[i].kind = "tune" /\ runs[i].pc = "plan")
         => LET r == runs[i]
                n == runs'[i]
                none == r.target # All /\ ~HasId(r.snap.hubs, r.target)
                          /\ ~HasId(r.snap.articles, r.target)
            IN /\ n.pc = "refactor"
                    => /\ Selected(n.targets, r.snap.hubs, r.snap.articles, r.target)
                       /\ n.targets # <<>> /\ n.k = 1
               /\ (none /\ n.pc # "plan")
                    => n.pc = "done" /\ state'.status = "ready"
                         /\ state'.executionPlan = <<>>
               /\ (n.pc = "done" /\ n.exit = "success")
                    => /\ Selected(<<>>, r.snap.hubs, r.snap.articles, r.target)
                       /\ state'.status = "ready"]_vars

\* a run that resolved an id carried by an article and by no hub
C26_Witness ==
  \E i \in 1..Len(runs) :
    /\ runs[i].kind = "tune" /\ runs[i].pc = "refactor" /\ runs[i].target = 3
    /\ Len(runs[i].targets) = 1 /\ runs[i].targets[1].type = "article"
    /\ ~HasId(runs[i].snap.hubs, 3)

\* a run whose target id is carried by a hub and by an article: the hub wins
C26_WitnessHubFirst ==
  \E i \in 1..Len(runs) :
    /\ runs[i].kind = "tune" /\ runs[i].pc = "refactor" /\ runs[i].target = 1
    /\ HasId(runs[i].snap.hubs, 1) /\ HasId(runs[i].snap.articles, 1)
    /\ Len(runs[i].targets) = 1 /\ runs[i].targets[1].type = "hub"

\* C27: in Publish the response that means "already exists" to
\* createRepository (HTTP 422 from the hosting service) and the conflict
\* response that means "already enabled" to enablePages (HTTP 409) do not
\* abort the run: after the first the run goes on to the push phase (the
\* README call, which is in flight when the content-generation credential is
\* configured), after the second it completes the enable-pages task and ends
\* in success with status deployed.
C27_ConflictIsSuccess ==
  [][\A i \in 1..Len(runs) :
       runs[i].kind = "publish" =>
         /\ (runs[i].pc = "create" /\ runs'[i].createStatus \in {200, 422}
               /\ apiKey)
              => /\ runs'[i].pc = "readme" /\ runs'[i].created
                 /\ runs'[i].call.phase = "inflight"
                 /\ NeverCanceled
                      => /\ TaskHas(state'.executionPlan, <<"check-repo", 0>>, "completed")
                         /\ TaskHas(state'.executionPlan, <<"push-files", 0>>, "running")
         /\ (runs[i].pc = "pages" /\ runs'[i].pagesStatus \in {200, 409})
              => /\ runs'[i].pc = "done" /\ runs'[i].exit = "success"
                 /\ state'.status = "deployed"
                 /\ state'.executionPlan = <<>>]_vars

\* a Publish whose createRepository was answered "already exists" and whose
\* enablePages was answered "already enabled" has ended in deployed
C27_Witness ==
  \E i \in 1..Len(runs) :
    /\ runs[i].kind = "publish" /\ runs[i].exit = "success"
    /\ runs[i].createStatus = 422 /\ runs[i].pagesStatus = 409
    /\ state.status = "deployed" /\ NeverCanceled

\* fs lists the hubs, then the articles, then the README (when one was
\* generated), in that order
FilesInOrder(fs, hubs, arts) ==
  LET h == Len(hubs)
      a == Len(arts)
  IN /\ Len(fs) \in {h + a, h + a + 1}
     /\ \A j \in 1..h : fs[j] = <<"hub", hubs[j].id>>
     /\ \A j \in 1..a : fs[h + j] = <<"article", arts[j].id>>
     /\ Len(fs) = h + a + 1 => fs[h + a + 1] = <<"readme", 0>>

\* C28: in the push phase of Publish the files are processed one at a time
\* in the order hubs, articles, README; for each file the progress callback
\* fires first (the detail is set as the read is issued), then the existing
\* revision marker is read, then the file is written, and the write carries a
\* marker exactly when the read found one; a failed write ends the run, which
\* then writes no later file; enablePages is issued only after the write of
\* the last file succeeded.
C28_PushPhaseOrder ==
  [][\A i \in 1..Len(runs) :
       runs[i].kind = "publish" =>
         LET r == runs[i]
             n == runs'[i]
         IN /\ (r.pc = "readme" /\ n.pc \in {"check", "put", "pages"})
                 => /\ FilesInOrder(n.files, r.snap.hubs, r.snap.articles)
                    /\ n.k = 1
                    /\ n.pc = "pages" <=> n.files = <<>>
            /\ (n.pc = "check" /\ (r.pc # "check" \/ n.k # r.k))
                 => /\ r.pc \in {"readme", "put"}
                    /\ n.call.phase = "inflight" /\ n.call.inv = 1
                    /\ state'.currentDetail = "sending"
            /\ r.pc = "check"
                 => /\ r.k \in 1..Len(r.files)
                    /\ r.call.phase \in {"inflight", "wait"}
                    /\ n.pc \in {"check", "put", "done"}
                    /\ n.pc # "done" => n.k = r.k /\ n.files = r.files
                    /\ n.pc = "put" => (n.sha <=> n.checkStatus = 200)
            /\ r.pc = "put"
                 => /\ r.k \in 1..Len(r.files)
                    /\ r.call.phase \in {"inflight", "wait"}
                    /\ r.sha <=> r.checkStatus = 200
                    /\ n.pc \in {"put", "check", "pages", "done"}
                    /\ n.pc = "put" => n.k = r.k /\ n.sha = r.sha
                    /\ n.pc = "check" => n.k = r.k + 1 /\ r.call.phase = "inflight"
                    /\ n.pc = "pages" => r.k = Len(r.files) /\ r.call.phase = "inflight"
                    /\ n.pc = "done" => n.exit \in {"fatal", "canceled"}
                    /\ n.files = r.files \/ n.pc = "done"
            /\ (n.pc = "pages" /\ r.pc # "pages") => r.pc \in {"readme", "put"}
            /\ r.pc = "done" => n = r]_vars

\* the write of the last of three files (hub, hub, article: no README was
\* generated) carries the marker its read found, the earlier two are written
C28_Witness ==
  \E i \in 1..Len(runs) :
    /\ runs[i].kind = "publish" /\ runs[i].pc = "put"
    /\ Len(runs[i].files) = 3 /\ runs[i].k = 3
    /\ runs[i].files[3][1] = "article"
    /\ runs[i].sha /\ runs[i].checkStatus = 200

\* a README is written last, as a new file (its read found nothing)
C28_WitnessReadme ==
  \E i \in 1..Len(runs) :
    /\ runs[i].kind = "publish" /\ runs[i].pc = "put"
    /\ runs[i].k = Len(runs[i].files) /\ runs[i].files[runs[i].k] = <<"readme", 0>>
    /\ runs[i].k >= 2 /\ ~runs[i].sha /\ runs[i].checkStatus = 404

(***************************************************************************)
(* Import: content restoration and the root document                       *)
(***************************************************************************)
\* the page file of a hub: <slug>/index.html, the root index.html for the
\* reserved slug index (0)
PageOf(hub) == File(hub.slug, "index.html")
Scanned(files, f) == \E m \in 1..Len(files) : files[m] = f
\* final is hubs restored from files as the claim prescribes
Restored(final, hubs, files) ==
  /\ Len(final) = Len(hubs)
  /\ \A j \in 1..Len(hubs) :
       final[j] = IF Scanned(files, PageOf(hubs[j]))
                  THEN [hubs[j] EXCEPT !.html = ContentOf(PageOf(hubs[j]))]
                  ELSE hubs[j]

\* C29 (as claimed): Import's full content restoration yields a hub list
\* with the length and order of the hubs inferred by structure analysis: a hub
\* whose page file was scanned carries that file's fetched content, a hub
\* with no such file is kept unchanged without markup, and content is fetched
\* only for hubs that have one.
C29_RestoreKeepsHubs ==
  [][\A i \in 1..Len(runs) :
       /\ (runs'[i].kind = "import" /\ runs'[i].pc = "restore")
            => Scanned(runs'[i].files, PageOf(runs'[i].hubs[runs'[i].k]))
       /\ Exits(i, "import", "success")
            => IF runs[i].pc = "restore"
               THEN Restored(state'.hubs, runs[i].hubs, runs[i].files)
               ELSE \E c \in StructureChoices :
                      Restored(state'.hubs, c.hubs, runs[i].files)]_vars

RootDocument == File(0, "index.html")
\* the document of run r's primary content fetch (App line 366), the markup
\* of which analyzeSiteIdentityAgent is handed (line 369)
PrimaryDocument(r) == r.files[r.indexFile]

\* C30 (as claimed): in Import the document fetched by the primary content
\* fetch and passed to identity analysis is the repository's root index file,
\* for every scanned tree that contains one, including a tree that lists a
\* nested */index.html before the root one.
C30_PrimaryFetchIsRoot ==
  \A i \in 1..Len(runs) :
    (runs[i].kind = "import" /\ runs[i].pc \in {"content", "brand"}
       /\ Scanned(runs[i].files, RootDocument))
      => runs[i].indexFile # 0 /\ PrimaryDocument(runs[i]) = RootDocument

(***************************************************************************)
(* Lookup, policy and token claims                                         *)
(***************************************************************************)
\* ProjectState['status'] (types.ts) without the three resting statuses
InProgressStatuses ==
  {"importing", "analyzing_site", "building_identity", "generating_strategy",
   "generating_hubs", "creating_repo", "pushing_files", "enabling_pages",
   "tuning_design"}
AllStatuses == InProgressStatuses \cup Resting
\* p comes before q in table order
TableBefore(p, q) == p[1] < q[1] \/ (p[1] = q[1] /\ p[2] <= q[2])

\* C31 (as claimed): for the status the project is in, resolve
\* (getCurrentWorkflowInfo) returns the first (definition, step) pair in table
\* order whose step lists the status, it returns a result when the status is
\* an in-progress one, and every step that lists the status is the answer of
\* resolve for some status.
C31_ResolveCoversEveryStep ==
  LET hits == StepsWith(state.status)
      res == getCurrentWorkflowInfo(state.status)
  IN /\ hits # {} => res \in hits /\ \A q \in hits : TableBefore(res, q)
     /\ hits = {} => res = <<0, 0>>
     /\ state.status \in InProgressStatuses => res # <<0, 0>>
     /\ \A p \in hits : \E st \in AllStatuses : getCurrentWorkflowInfo(st) = p

\* every attempt of the execution has failed
AllFailed(h) == \A j \in 1..Len(h) : Failed(h[j])
\* wait j is initialDelay * 1.5^(j-1), and it follows attempt j, which failed
\* with a Retryable error and was not the last attempt allowed
WaitsFollowRetryable(c) ==
  /\ Len(c.waits) <= Len(c.hist)
  /\ \A j \in 1..Len(c.waits) :
       /\ c.waits[j] * (2 ^ (j - 1)) = GenInitialDelay * (3 ^ (j - 1))
       /\ c.hist[j].kind = "err" /\ c.hist[j].cls \in SpecRetryable
       /\ j < c.max

C33_UniformRetryPolicy ==
  \A i \in 1..Len(runs) :
    runs[i].call.phase \in {"inflight", "wait"}
      => /\ runs[i].call.max = 5
         /\ runs[i].call.i = 0 => runs[i].call.delay = 2000

\* the positions at which a run awaits a content-generation call
GenPcs == {"identity", "strategy", "page", "finalize", "plan", "refactor",
           "brand", "structure", "readme"}

\* C34: without the content-generation credential retryWithBackoff throws
\* the configuration error (a Fatal one, not Canceled) with zero invocations
\* of the operation and no wait, whatever maxAttempts is and whatever the
\* token state; no run ever has a content-generation call pending; Build and
\* Tune, whose first call is such a call, return in the step that starts
\* them; and every run that fails leaves a resting status, an empty ledger
\* and a cleared detail.
C34_NoCredentialAborts ==
  [][~apiKey =>
       /\ \A m \in 1..MaxAttempts, ab \in BOOLEAN :
            LET c == beginCall(NewCall("gen", m), apiKey, ab)
            IN /\ c.phase = "thrown" /\ c.result = Thrown("config", FALSE)
               /\ c.inv = 0 /\ c.waits = <<>> /\ c.hist = <<>>
       /\ \A i \in 1..Len(runs') :
            /\ runs'[i].pc \notin GenPcs
            /\ runs'[i].call.wrapper = "gen" => runs'[i].call.inv = 0
            /\ (i > Len(runs) /\ runs'[i].kind \in {"build", "tune"})
                 => runs'[i].pc = "done" /\ runs'[i].exit = "fatal"
            /\ (Returns(i) /\ runs'[i].exit = "fatal")
                 => /\ state'.status \in Resting
                    /\ state'.executionPlan = <<>>
                    /\ state'.currentDetail = "null"]_vars

\* without the credential a Publish of the saved project got as far as the
\* README call and was aborted to ready, after a Tune that was aborted at once
C34_Witness ==
  /\ ~apiKey /\ Len(runs) = 2
  /\ runs[1].kind = "tune" /\ runs[1].exit = "fatal"
  /\ runs[2].kind = "publish" /\ runs[2].exit = "fatal" /\ runs[2].details = "unknown"
  /\ runs[2].createStatus = 422
  /\ state.status = "ready" /\ state.executionPlan = <<>>

Tokens(q) == {q[i].sig : i \in 1..Len(q)}

\* C35: every pipeline start obtains a new cancellation token (one no
\* earlier run holds) that is not canceled, and makes it the current one; a
\* token's flag only goes from not-canceled to canceled, once (the canceled
\* token is no longer the current one) and never back; a cancel sets the flag
\* of the current token only, so never that of a run started afterwards.
C35_FreshTokenPerRun ==
  [][/\ aborted \subseteq aborted'
     /\ aborted' \subseteq Tokens(runs)
     /\ aborted' # aborted
          => /\ abortRef # 0 /\ abortRef \notin aborted
             /\ aborted' = aborted \cup {abortRef}
             /\ abortRef' = 0 /\ runs' = runs
     /\ \A i \in 1..Len(runs') :
          i > Len(runs)
            => /\ runs'[i].sig \notin Tokens(runs)
               /\ runs'[i].sig \notin aborted'
               /\ abortRef' = runs'[i].sig]_vars

\* the first run was canceled, the second, started afterwards, is running
\* with a token that is not canceled
C35_Witness ==
  /\ Len(runs) = 2 /\ runs[1].sig \in aborted /\ runs[2].sig \notin aborted
  /\ runs[2].pc # "done" /\ abortRef = runs[2].sig
  /\ runs[2].call.phase = "inflight"

Settled(c) == c.phase \in {"returned", "thrown"}

\* C36: an execution of either wrapper invokes its operation (sends its
\* request) at most max times, max being maxAttempts for the content-generation
\* wrapper and retries for the hosting wrapper, one invocation per loop
\* iteration; and when every invocation returns or throws and every backoff
\* timer fires, the execution ends by returning or throwing.
C36_BoundedAndTerminates ==
  /\ [](/\ call.inv <= call.max
        /\ call.phase \in {"inflight", "wait"} => call.inv = call.i + 1)
  /\ <>[]Settled(call)

\* the hosting wrapper gave up after sending the request `retries` times
C36_Witness ==
  /\ call.wrapper = "host" /\ call.max = HostRetries
  /\ call.inv = HostRetries /\ call.phase = "thrown" /\ ~token
  /\ call.result.err = "http5xx"

(***************************************************************************)
(* Termination of a pipeline run (checked under SpecFair)                  *)
(***************************************************************************)
\* C37: when every remote call returns or fails and every backoff wait
\* elapses, whenever a run has left the status not resting, with or without
\* a cancel, the status eventually is idle, ready or deployed again.
C37_RunsComeToRest ==
  (state.status \notin Resting) ~> (state.status \in Resting)

(***************************************************************************)
(* Start requests that fail their precondition                             *)
(***************************************************************************)
FailsPrecondition(q, s) ==
  \/ q.kind = "tune" /\ (s.identity = 0 \/ ~q.a)
  \/ q.kind = "import" /\ (~q.a \/ ~q.b)
  \/ q.kind = "publish" /\ (s.githubConfig.repo = "none" \/ ~q.b)

\* C38: a start request whose precondition fails (Tune with no identity or
\* an empty instruction, Import or Publish with an empty repository reference
\* or credential) starts no run, so makes no remote call, creates no
\* cancellation token, and leaves the project state (status, ledger, detail,
\* identity, hubs, articles, hosting config) as it was.
C38_RejectedStartChangesNothing ==
  [][FailsPrecondition(request', state)
       => UNCHANGED <<state, runs, abortRef, aborted>>]_vars

\* a Publish request without a credential was handled on a built project
C38_Witness ==
  /\ request.kind = "publish" /\ ~request.b
  /\ state.githubConfig.repo = "ok"
  /\ state.status = "ready" /\ Len(runs) = 1 /\ runs[1].kind = "build"

\* an Import request with an empty repository reference on a first visit
C38_WitnessImport ==
  /\ request.kind = "import" /\ ~request.a /\ request.b
  /\ state = InitialState /\ runs = <<>>

(***************************************************************************)
(* What a Tune run changes                                                 *)
(***************************************************************************)
\* page j of the list of this type is one the target selects among the
\* pages of project state b
PageSelected(type, j, b, target) ==
  \/ target = All
  \/ type = "hub" /\ b.hubs[j].id = target
  \/ type = "article" /\ ~HasId(b.hubs, target) /\ b.articles[j].id = target

\* of the project state, a step keeps everything a Tune run may not touch
KeepsArtifacts ==
  /\ state'.hubs = state.hubs /\ state'.articles = state.articles
  /\ state'.identity = state.identity /\ state'.githubConfig = state.githubConfig

\* C39: a Tune run that ends in success leaves, of the project it started
\* from, the hub list and the article list with their length, order, ids and
\* slugs (hub ids for articles) and the markup of every page the target does
\* not select; no step of the run writes the identity or the hosting
\* config, and no step before the last writes the lists.
C39_TuneChangesOnlySelectedMarkup ==
  [][\A i \in 1..Len(runs') :
       /\ (i > Len(runs) /\ runs'[i].kind = "tune") => KeepsArtifacts
       /\ (i <= Len(runs) /\ runs[i].kind = "tune" /\ Moves(i)
             /\ ~Exits(i, "tune", "success")) => KeepsArtifacts
       /\ (i <= Len(runs) /\ Exits(i, "tune", "success"))
            => LET b == runs[i].snap
                   t == runs[i].target
               IN /\ state'.identity = state.identity
                  /\ state'.githubConfig = state.githubConfig
                  /\ Len(state'.hubs) = Len(b.hubs)
                  /\ Len(state'.articles) = Len(b.articles)
                  /\ \A j \in 1..Len(b.hubs) :
                       /\ state'.hubs[j].id = b.hubs[j].id
                       /\ state'.hubs[j].slug = b.hubs[j].slug
                       /\ state'.hubs[j].html # b.hubs[j].html
                            => PageSelected("hub", j, b, t)
                  /\ \A j \in 1..Len(b.articles) :
                       /\ state'.articles[j].id = b.articles[j].id
                       /\ state'.articles[j].hubId = b.articles[j].hubId
                       /\ state'.articles[j].html # b.articles[j].html
                            => PageSelected("article", j, b, t)]_vars

\* a Tune run for one hub ended in success: that hub carries the run's
\* markup, the other hub and the article with the same id do not
C39_Witness ==
  \E i \in 1..Len(runs) :
    /\ runs[i].kind = "tune" /\ runs[i].exit = "success"
    /\ state.status = "ready" /\ Len(state.hubs) = 2 /\ Len(state.articles) = 1
    /\ state.hubs[1].id = 1 /\ state.hubs[1].html = TunedHtml(runs[i])
    /\ state.hubs[2].html # TunedHtml(runs[i])
    /\ state.articles[1].id = 1 /\ state.articles[1].html # TunedHtml(runs[i])

(***************************************************************************)
(* The hosting retry wrapper (checked under SpecRetry)                     *)
(***************************************************************************)
IsAbort(out) == out.kind = "err" /\ out.cls = "abort"
PassesThrough(out) == out.kind = "resp" /\ out.status # 429 /\ out.status < 500

\* C40: in fetchWithRetry every settled request but the last one failed with
\* a 429, a status >= 500 or a thrown non-abort error, and was followed by a
\* wait of 1000 * 2^i ms (i its 0-based index) when i < retries - 1; a response
\* with any other status is returned by the request that received it, with no
\* wait and no further request; a failed request that is not an abort and not
\* request number `retries` is retried when the token is not canceled; at
\* most `retries` requests are sent and none is followed by a wait when it is
\* request number `retries`; an abort error ends the execution with that
\* error, with no wait and no further request.
C40_HostRetryPolicy ==
  call.wrapper = "host" =>
    LET h == call.hist
        n == Len(call.hist)
    IN /\ call.inv <= call.max /\ n <= call.inv /\ call.inv <= n + 1
       /\ Len(call.waits) <= call.max - 1
       /\ \A j \in 1..Len(call.waits) :
            /\ call.waits[j] = 1000 * (2 ^ (j - 1))
            /\ j <= n /\ Failed(h[j]) /\ ~IsAbort(h[j])
       /\ \A j \in 1..(n - 1) : Failed(h[j]) /\ ~IsAbort(h[j])
       /\ \A j \in 1..n : (j < n \/ call.phase # "thrown" \/ j < call.max)
                            /\ Failed(h[j]) /\ ~IsAbort(h[j])
                            => Len(call.waits) >= j
       /\ (n >= 1 /\ PassesThrough(h[n]))
            => /\ call.phase = "returned" /\ call.result.status = h[n].status
               /\ call.inv = n /\ Len(call.waits) = n - 1
       /\ call.phase = "returned" => n >= 1 /\ PassesThrough(h[n])
       /\ (n >= 1 /\ IsAbort(h[n]))
            => /\ call.phase = "thrown" /\ call.result = AbortError
               /\ call.inv = n /\ Len(call.waits) = n - 1
       /\ (n >= 1 /\ n < call.max /\ Failed(h[n]) /\ ~IsAbort(h[n]) /\ ~token)
            => call.phase \in {"wait", "inflight"}
       /\ (n = call.max /\ Failed(h[n]) /\ ~IsAbort(h[n]))
            => /\ call.phase = "thrown" /\ call.inv = call.max
               /\ Len(call.waits) = call.max - 1

\* under the default policy: a 500, a network error, then a 404 returned by
\* the third request, after waits of 1000 and 2000 ms
C40_Witness ==
  /\ call.wrapper = "host" /\ call.max = HostRetries /\ call.phase = "returned"
  /\ call.inv = 3 /\ call.waits = <<1000, 2000>>
  /\ call.hist = << Resp(500), Err("network"), Resp(404) >>
  /\ call.result.status = 404

=============================================================================
